---- MODULE Spec2Model ----
(***************************************************************************)
(* Chunked document-extraction pipeline of python_processor:               *)
(*   - PDFSplitter.split_pdf / EOBProcessor.process_file                   *)
(*     (document_ai_processor.py), the page-chunk planner;                 *)
(*   - MistralProcessor.process_pdf and its sequential and batch chunk     *)
(*     paths (mistral_processor.py);                                       *)
(*   - the record-level functions of MistralProcessor and OpenAIExtractor  *)
(*     (openai_extractor.py), each studied on its own inputs: the page     *)
(*     offset of a chunk's records, the consolidation of chunk records,    *)
(*     and the recovery of records from a truncated JSON answer.           *)
(* Page numbers follow the source: start_page is 0-based inside the loops, *)
(* the chunk ranges handed out are 1-based and inclusive.                  *)
(***************************************************************************)
EXTENDS Integers, Sequences, FiniteSets, TLC

(***************************************************************************)
(* Program constants                                                       *)
(***************************************************************************)
MAX_PAGES_PER_CHUNK == 30

(***************************************************************************)
(* Bounds of the model                                                     *)
(***************************************************************************)
MaxPlanPages == 64
MaxChunkSize == 5

VARIABLES
    \* --- shared
    total_pages,    \* len(reader.pages) of the document
    \* --- PDFSplitter.split_pdf / EOBProcessor.process_file
    max_pages,      \* split_pdf's max_pages / the chunk limit planned with
    pc,             \* position of split_pdf / process_file
    start_page,     \* split_pdf's loop variable (0-based)
    split_files,    \* split_pdf's list of (start, end), 1-based inclusive
    dispatched,     \* page ranges process_file handed to Document AI
    mistral_plan,   \* chunk_info built by the Mistral chunk loop
    \* --- MistralProcessor.process_pdf
    api_key_set,    \* self.api_key is set and is not the placeholder
    use_batch,      \* self.use_batch
    mpc,            \* position of process_pdf
    chunk_idx,      \* loop variable of the running chunk loop
    batch_requests, \* batch_requests built by _process_chunks_batch
    chunk_info,     \* chunk_info built by _process_chunks_batch
    submitted,      \* request lists handed to _create_batch_job, in order
    job_id,         \* job id returned by _create_batch_job, or NoJob
    elapsed,        \* time.time() - start_time in _wait_for_batch_completion
    last_status,    \* last answer to the wait loop's status request
    batch_results,  \* list returned by _get_batch_results
    batch_error,    \* exception caught by _process_with_chunking, or NoError
    sync_log,       \* chunk calls made by the running _process_chunks_sequential
    all_records,    \* all_records of the running chunk function
    total_input_tokens,
    total_output_tokens,
    result,         \* MistralExtractionResult returned by process_pdf, or NoResult
    error,          \* exception process_pdf raised to its caller, or NoError
    \* --- the record-level functions studied on their own
    fn_pc,          \* which function call has returned
    fn_in,          \* the arguments of the call
    fn_out,         \* what the call returned
    \* --- EOBProcessor.process_file, several documents at a time
    temp_splits,    \* the directory temp_splits: whether it exists, its files
    runs,           \* per running process_file call: its position and locals
    \* --- _call_mistral_api / _call_openai
    call,           \* the running provider call: its loop and what it met
    \* --- CostTracker
    cost,           \* the running CostTracker call: its arguments, loops, result
    \* --- DocumentOrchestrator.process_document
    proc,           \* the running process_document call: its position and effects
    \* --- the deletion of temporary chunk files
    clean           \* the running cleanup: where it runs, its attempts, what leaves it

planVars == <<max_pages, pc, start_page, split_files, dispatched, mistral_plan>>

mistralVars == <<api_key_set, use_batch, mpc, chunk_idx, batch_requests, chunk_info,
                 submitted, job_id, elapsed, last_status, batch_results, batch_error,
                 sync_log, all_records, total_input_tokens, total_output_tokens,
                 result, error>>

fnVars == <<fn_pc, fn_in, fn_out>>

eobVars == <<temp_splits, runs>>

\* the components that are studied in specifications of their own
compVars == <<eobVars, call, cost, proc, clean>>

vars == <<total_pages, planVars, mistralVars, fnVars, compVars>>

Min(a, b) == IF a <= b THEN a ELSE b

(***************************************************************************)
(* PDFSplitter.split_pdf                                                   *)
(***************************************************************************)
\* faulty variant of SplitEndPage: the last chunk is not clamped to total_pages
SplitEndPageNoClamp(start, maxp, total) == start + maxp

\* end_page = min(start_page + max_pages, total_pages)
SplitEndPage(start, maxp, total) == Min(start + maxp, total)

\* if total_pages <= max_pages: return [(input_path, 1, total_pages)]
SplitPdfSingle ==
    /\ pc = "split_entry"
    /\ total_pages <= max_pages
    /\ split_files' = <<[start |-> 1, end |-> total_pages]>>
    /\ pc' = "split_returned"
    /\ UNCHANGED <<compVars, fnVars, total_pages, max_pages, start_page, dispatched, mistral_plan, mistralVars>>

\* range(0, total_pages, max_pages) with max_pages = 0 raises ValueError
SplitPdfRangeError ==
    /\ pc = "split_entry"
    /\ ~(total_pages <= max_pages)
    /\ max_pages = 0
    /\ pc' = "split_raised"
    /\ UNCHANGED <<compVars, fnVars, total_pages, max_pages, start_page, split_files, dispatched, mistral_plan, mistralVars>>

\* entering the for loop: split_files = [], start_page = 0
SplitPdfEnterLoop ==
    /\ pc = "split_entry"
    /\ ~(total_pages <= max_pages)
    /\ max_pages # 0
    /\ start_page' = 0
    /\ split_files' = <<>>
    /\ pc' = "split_loop"
    /\ UNCHANGED <<compVars, fnVars, total_pages, max_pages, dispatched, mistral_plan, mistralVars>>

\* range(0, total_pages, step) yields start_page while it is on the near side
\* of total_pages: below it for a positive step, above it for a negative one
RangeHasNext(start, stop, step) ==
    IF step > 0 THEN start < stop ELSE start > stop

\* one iteration of: for start_page in range(0, total_pages, max_pages)
SplitPdfLoop ==
    /\ pc = "split_loop"
    /\ RangeHasNext(start_page, total_pages, max_pages)
    /\ split_files' = Append(split_files,
            [start |-> start_page + 1,
             end |-> SplitEndPage(start_page, max_pages, total_pages)])
    /\ start_page' = start_page + max_pages
    /\ UNCHANGED <<compVars, fnVars, total_pages, max_pages, pc, dispatched, mistral_plan, mistralVars>>

\* return split_files
SplitPdfReturn ==
    /\ pc = "split_loop"
    /\ ~RangeHasNext(start_page, total_pages, max_pages)
    /\ pc' = "split_returned"
    /\ UNCHANGED <<compVars, fnVars, total_pages, max_pages, start_page, split_files, dispatched, mistral_plan, mistralVars>>

(***************************************************************************)
(* EOBProcessor.process_file, the part that consumes split_pdf's result    *)
(***************************************************************************)
SeqRange(s) == {s[i] : i \in 1..Len(s)}

\* len(split_files) == 1: the whole input file goes to Document AI;
\* otherwise _process_parallel submits every entry of split_files.
\* Any exception on the way is caught and reported as status 'error'.
ProcessFileDispatch ==
    /\ pc = "split_returned"
    /\ dispatched' = IF Len(split_files) = 1
                     THEN {[start |-> 1, end |-> total_pages]}
                     ELSE SeqRange(split_files)
    /\ \E outcome \in {"pf_success", "pf_error"} : pc' = outcome
    /\ UNCHANGED <<compVars, fnVars, total_pages, max_pages, start_page, split_files, mistral_plan, mistralVars>>

\* except Exception as e: return {... 'status': 'error', 'error': str(e)}
ProcessFileSplitError ==
    /\ pc = "split_raised"
    /\ pc' = "pf_error"
    /\ UNCHANGED <<compVars, fnVars, total_pages, max_pages, start_page, split_files, dispatched, mistral_plan, mistralVars>>

(***************************************************************************)
(* MistralProcessor: the chunk arithmetic of process_pdf,                  *)
(* _process_with_chunking and the two chunk loops                          *)
(***************************************************************************)
\* if total_pages > self.MAX_PAGES_PER_CHUNK: chunk, else _process_single
NeedsChunking(total, maxp) == total > maxp

\* faulty variant of NumChunks: one chunk too many when maxp divides total
NumChunksRoundedDown(total, maxp) == total \div maxp + 1

\* num_chunks = (total_pages + MAX - 1) // MAX
NumChunks(total, maxp) == (total + maxp - 1) \div maxp

\* start_page = chunk_idx * MAX (0-based)
ChunkStartPage(idx, maxp) == idx * maxp

\* end_page = min(start_page + MAX, total_pages)
ChunkEndPage(idx, total, maxp) ==
    Min(ChunkStartPage(idx, maxp) + maxp, total)

\* chunk_info entry; pages start_page + 1 .. end_page are written to the chunk
ChunkInfo(idx, total, maxp) ==
    [chunk_idx |-> idx,
     start_page |-> ChunkStartPage(idx, maxp),
     end_page |-> ChunkEndPage(idx, total, maxp)]

\* the chunks the processor works on for a document of `total` pages
MistralChunks(total, maxp) ==
    IF NeedsChunking(total, maxp)
    THEN [i \in 1..NumChunks(total, maxp) |-> ChunkInfo(i - 1, total, maxp)]
    ELSE <<[chunk_idx |-> 0, start_page |-> 0, end_page |-> total]>>

\* the chunk plan of the Mistral processor for a positive chunk limit
MistralPlan ==
    /\ mistral_plan = <<>>
    /\ max_pages >= 1
    /\ mistral_plan' = MistralChunks(total_pages, max_pages)
    /\ UNCHANGED <<compVars, fnVars, total_pages, max_pages, pc, start_page, split_files, dispatched, mistralVars>>

(***************************************************************************)
(* MistralProcessor: records, provider responses, and the pure helpers of  *)
(* the chunk paths                                                         *)
(***************************************************************************)
NoJob == "none"
NoError == "none"
NoResult == [mode |-> "none", records |-> <<>>, input_tokens |-> 0, output_tokens |-> 0]

\* value of a record's 'Original_page_no': an int, a value of another type
\* (a numeric string, None, ...), or no such key in the record
PageInt(n) == [kind |-> "int", val |-> n]
PageOther == [kind |-> "other", val |-> 0]
PageAbsent == [kind |-> "absent", val |-> 0]

\* where a record was parsed from (not a field of the program's dict): the
\* custom_id and position of the batch result line, or the synchronous call
NoOrigin == [id |-> <<"none", 0>>, line |-> 0]

\* a record as the response parser returns it; "" stands for a missing or
\* falsy identity field; chunk is the index of the chunk whose page offset
\* was applied (-1 before that)
Rec(claim_id, page) ==
    [Claim_ID |-> claim_id, patient_acct |-> "", Patient_Name |-> "",
     service_date |-> "", paid_amount |-> "",
     Original_page_no |-> page, origin |-> NoOrigin, chunk |-> 0 - 1]

\* a response body: the records its content parses to (_parse_json_response
\* followed by _extract_records) and usage.prompt_tokens / completion_tokens
\* (0 when usage is missing)
ResponseBodies ==
    { [content |-> <<Rec("A", PageInt(2))>>, prompt_tokens |-> 5, completion_tokens |-> 2],
      [content |-> <<Rec("A", PageAbsent), Rec("", PageOther)>>,
       prompt_tokens |-> 7, completion_tokens |-> 3],
      [content |-> <<Rec("B", PageInt(2)), Rec("C", PageInt(1))>>,
       prompt_tokens |-> 0, completion_tokens |-> 0] }

\* body of a batch result line without choices (an error entry); it may still
\* report usage
NoChoicesBody == [content |-> <<>>, prompt_tokens |-> 4, completion_tokens |-> 1]

\* outcome of _process_single's provider call: an exception (retries
\* exhausted, HTTP error, no choices in the answer) or a response body
SyncOutcomes ==
    {[ok |-> FALSE, body |-> NoChoicesBody]} \cup {[ok |-> TRUE, body |-> b] : b \in ResponseBodies}

\* faulty variant of CustomId: every request carries the first chunk's id
CustomIdOfFirstChunk(idx) == <<"chunk_", 0>>

\* 'custom_id': f'chunk_{chunk_idx}'
CustomId(idx) == <<"chunk_", idx>>

\* lines a batch output file can hold for a job of n requests: any custom_id
\* of the job or a foreign one, with or without choices
ResultLines(n) ==
    {[custom_id |-> CustomId(i), choices |-> TRUE, body |-> b] :
        i \in 0..n, b \in ResponseBodies}
    \cup {[custom_id |-> CustomId(i), choices |-> FALSE, body |-> NoChoicesBody] : i \in 0..n}

\* result lists of at most n lines, in file order (ids may repeat or be missing)
BatchResultLists(n) == UNION {[1..k -> ResultLines(n)] : k \in 0..n}

TagRecords(records, org) ==
    [k \in 1..Len(records) |-> [records[k] EXCEPT !.origin = org]]

TagLines(lines) ==
    [j \in 1..Len(lines) |->
        [lines[j] EXCEPT !.body.content =
            TagRecords(lines[j].body.content, [id |-> lines[j].custom_id, line |-> j])]]

\* "Adjust page numbers": an int Original_page_no gets start_page added, a
\* value of another type is left alone, a missing one becomes start_page + 1
AdjustRecord(record, startp, idx) ==
    [record EXCEPT
        !.Original_page_no =
            IF record.Original_page_no.kind = "absent" THEN PageInt(startp + 1)
            ELSE IF record.Original_page_no.kind = "int"
                 THEN PageInt(startp + record.Original_page_no.val)
                 ELSE record.Original_page_no,
        !.chunk = idx]

AdjustRecords(records, startp, idx) ==
    [k \in 1..Len(records) |-> AdjustRecord(records[k], startp, idx)]

\* key = '|'.join(str(val) for the identity fields whose value is truthy)
DedupKey(record) ==
    SelectSeq(<<record.Claim_ID, record.patient_acct, record.Patient_Name,
                record.service_date, record.paid_amount>>,
              LAMBDA v : v # "")

RECURSIVE DedupFrom(_, _, _, _)
DedupFrom(records, i, seen, unique) ==
    IF i > Len(records) THEN unique
    ELSE LET key == DedupKey(records[i]) IN
         IF key # <<>> /\ key \notin seen
         THEN DedupFrom(records, i + 1, seen \cup {key}, Append(unique, records[i]))
         ELSE IF key = <<>>
              THEN DedupFrom(records, i + 1, seen, Append(unique, records[i]))
              ELSE DedupFrom(records, i + 1, seen, unique)

\* faulty variant of DeduplicateRecords: of the records with one key the last
\* one is kept instead of the first
DeduplicateRecordsKeepLast(records) ==
    LET n == Len(records)
        backwards == [k \in 1..n |-> records[n + 1 - k]]
        kept == DedupFrom(backwards, 1, {}, <<>>)
    IN  [k \in 1..Len(kept) |-> kept[Len(kept) + 1 - k]]

\* _deduplicate_records
DeduplicateRecords(records) == DedupFrom(records, 1, {}, <<>>)

\* faulty variant of AddTokens: = instead of +=
AddTokensOverwrite(total, n) == n

\* total_input_tokens += input_tokens
AddTokens(total, n) == total + n

\* faulty variant of UseBatchPath: self.use_batch is not consulted
UseBatchPathIgnoringFlag(batch_enabled, num_chunks) == num_chunks > 1

\* if self.use_batch and num_chunks > 1
UseBatchPath(batch_enabled, num_chunks) == batch_enabled /\ num_chunks > 1

\* results_map = {r['custom_id']: r for r in batch_results}: a later line
\* replaces an earlier one with the same custom_id
RECURSIVE ResultsMapFrom(_, _, _)
ResultsMapFrom(lines, j, map) ==
    IF j > Len(lines) THEN map
    ELSE ResultsMapFrom(lines, j + 1,
            (lines[j].custom_id :> lines[j]) @@ map)

ResultsMap(lines) == ResultsMapFrom(lines, 1, [x \in {} |-> 0])

NoLine == [custom_id |-> <<"none", 0>>, choices |-> FALSE, body |-> NoChoicesBody]

\* faulty variant of LookupResult: a missing chunk is filled in from another line
LookupResultOrAnyOther(map, custom_id) ==
    IF custom_id \in DOMAIN map THEN map[custom_id]
    ELSE IF DOMAIN map # {} THEN map[CHOOSE d \in DOMAIN map : TRUE]
    ELSE NoLine

\* result = results_map.get(custom_id)
LookupResult(map, custom_id) ==
    IF custom_id \in DOMAIN map THEN map[custom_id] ELSE NoLine

\* the loop over chunk_info in _process_chunks_batch: a chunk without a
\* result or without choices is skipped before anything is accumulated
RECURSIVE BatchFold(_, _, _, _)
BatchFold(infos, i, map, acc) ==
    IF i > Len(infos) THEN acc
    ELSE LET info == infos[i]
             line == LookupResult(map, CustomId(info.chunk_idx))
         IN  IF line = NoLine \/ ~line.choices
             THEN BatchFold(infos, i + 1, map, acc)
             ELSE BatchFold(infos, i + 1, map,
                    [records |-> acc.records \o
                        AdjustRecords(line.body.content, info.start_page, info.chunk_idx),
                     input_tokens |-> AddTokens(acc.input_tokens, line.body.prompt_tokens),
                     output_tokens |-> AddTokens(acc.output_tokens, line.body.completion_tokens)])

\* job statuses the provider reports; UNKNOWN stands for a missing or
\* unrecognised status string
BATCH_POLL_INTERVAL == 10
BATCH_MAX_WAIT_TIME == 3600
STATUS_REQUEST_TIMEOUT == 30

JobStatuses == {"QUEUED", "RUNNING", "UNKNOWN", "SUCCESS", "FAILED", "CANCELLED", "EXPIRED"}

\* faulty variant of IsFailureStatus: CANCELLED and EXPIRED keep the loop polling
IsFailureStatusOnlyFailed(job_status) == job_status = "FAILED"

\* elif job_status in ['FAILED', 'CANCELLED', 'EXPIRED']: raise
IsFailureStatus(job_status) == job_status \in {"FAILED", "CANCELLED", "EXPIRED"}

\* faulty variant of IsSuccessStatus: a running job counts as finished
IsSuccessStatusOrRunning(job_status) == job_status \in {"SUCCESS", "RUNNING"}

\* if job_status == 'SUCCESS': return status
IsSuccessStatus(job_status) == job_status = "SUCCESS"

\* faulty variant of ElapsedAfterSleep: the clock the loop reads never advances
ElapsedAfterSleepNoSleep(now, latency) == now

\* time.sleep(self.BATCH_POLL_INTERVAL) after a status request that took
\* `latency` seconds
ElapsedAfterSleep(now, latency) == now + latency + BATCH_POLL_INTERVAL

\* while time.time() - start_time < self.BATCH_MAX_WAIT_TIME
WaitLoopContinues(now) == now < BATCH_MAX_WAIT_TIME

(***************************************************************************)
(* MistralProcessor.process_pdf as a state machine                         *)
(***************************************************************************)
cfgVars == <<total_pages, api_key_set, use_batch>>
batchVars == <<batch_requests, chunk_info, submitted, job_id, elapsed, last_status, batch_results>>
accVars == <<sync_log, all_records, total_input_tokens, total_output_tokens>>

num_chunks == NumChunks(total_pages, MAX_PAGES_PER_CHUNK)

\* raise ValueError("Mistral API key not configured ...")
ProcessPdfNoKey ==
    /\ mpc = "process_pdf"
    /\ ~api_key_set
    /\ mpc' = "failed"
    /\ error' = "ValueError"
    /\ UNCHANGED <<compVars, fnVars, cfgVars, planVars, batchVars, accVars, chunk_idx, batch_error, result>>

\* raise FileNotFoundError; PdfReader failing on an unreadable file
ProcessPdfUnreadable ==
    /\ mpc = "process_pdf"
    /\ api_key_set
    /\ mpc' = "failed"
    /\ error' = "FileError"
    /\ UNCHANGED <<compVars, fnVars, cfgVars, planVars, batchVars, accVars, chunk_idx, batch_error, result>>

\* total_pages > MAX_PAGES_PER_CHUNK: _process_with_chunking, else _process_single
ProcessPdfRoute ==
    /\ mpc = "process_pdf"
    /\ api_key_set
    /\ mpc' = IF NeedsChunking(total_pages, MAX_PAGES_PER_CHUNK) THEN "chunking" ELSE "single"
    /\ UNCHANGED <<compVars, fnVars, cfgVars, planVars, batchVars, accVars, chunk_idx, batch_error, result, error>>

\* _process_single on the whole document: no page adjustment, no deduplication
ProcessSingle ==
    /\ mpc = "single"
    /\ \E out \in SyncOutcomes :
          /\ sync_log' = Append(sync_log, [chunk_idx |-> 0, out |-> out])
          /\ IF out.ok
             THEN /\ result' = [mode |-> "single",
                                records |-> TagRecords(out.body.content,
                                                [id |-> <<"sync", 0>>, line |-> 0]),
                                input_tokens |-> out.body.prompt_tokens,
                                output_tokens |-> out.body.completion_tokens]
                  /\ mpc' = "done"
                  /\ error' = error
             ELSE /\ mpc' = "failed"
                  /\ error' = "SyncError"
                  /\ result' = result
    /\ UNCHANGED <<compVars, fnVars, cfgVars, planVars, batchVars, chunk_idx, batch_error,
                   all_records, total_input_tokens, total_output_tokens>>

\* _process_with_chunking: the choice between the batch and the sequential path
ProcessWithChunking ==
    /\ mpc = "chunking"
    /\ mpc' = IF UseBatchPath(use_batch, num_chunks) THEN "batch_prepare" ELSE "sequential"
    /\ chunk_idx' = 0
    /\ UNCHANGED <<compVars, fnVars, cfgVars, planVars, batchVars, accVars, batch_error, result, error>>

\* one iteration of "Prepare all chunks and build batch requests"
BatchPrepareChunk ==
    /\ mpc = "batch_prepare"
    /\ chunk_idx < num_chunks
    /\ batch_requests' = Append(batch_requests,
            [custom_id |-> CustomId(chunk_idx),
             first_page |-> ChunkStartPage(chunk_idx, MAX_PAGES_PER_CHUNK) + 1,
             last_page |-> ChunkEndPage(chunk_idx, total_pages, MAX_PAGES_PER_CHUNK)])
    /\ chunk_info' = Append(chunk_info, ChunkInfo(chunk_idx, total_pages, MAX_PAGES_PER_CHUNK))
    /\ chunk_idx' = chunk_idx + 1
    /\ UNCHANGED <<compVars, fnVars, cfgVars, planVars, accVars, submitted, job_id, elapsed, last_status,
                   batch_results, mpc, batch_error, result, error>>

\* writing or encoding a chunk's temporary PDF raises
BatchPrepareError ==
    /\ mpc = "batch_prepare"
    /\ chunk_idx < num_chunks
    /\ mpc' = "batch_failed"
    /\ batch_error' = "PrepareError"
    /\ UNCHANGED <<compVars, fnVars, cfgVars, planVars, batchVars, accVars, chunk_idx, result, error>>

\* job_id = self._create_batch_job(batch_requests): upload and job creation
\* succeed, or one of them raises
BatchSubmit ==
    /\ mpc = "batch_prepare"
    /\ chunk_idx = num_chunks
    /\ submitted' = Append(submitted, batch_requests)
    /\ \E created \in BOOLEAN :
          IF created
          THEN /\ job_id' = "job"
               /\ mpc' = "batch_wait"
               /\ batch_error' = batch_error
          ELSE /\ job_id' = job_id
               /\ mpc' = "batch_failed"
               /\ batch_error' = "SubmitError"
    /\ elapsed' = 0
    /\ UNCHANGED <<compVars, fnVars, cfgVars, planVars, accVars, batch_requests, chunk_info, last_status,
                   batch_results, chunk_idx, result, error>>

\* one iteration of the loop of _wait_for_batch_completion: the status
\* request fails, or reports a status; SUCCESS returns, a failure status
\* raises, anything else sleeps
BatchPoll ==
    /\ mpc = "batch_wait"
    /\ WaitLoopContinues(elapsed)
    /\ \/ /\ last_status' = "HTTP_ERROR"
          /\ mpc' = "batch_failed"
          /\ batch_error' = "StatusError"
          /\ elapsed' = 0
       \/ \E job_status \in JobStatuses :
             /\ last_status' = job_status
             /\ IF IsSuccessStatus(job_status)
                THEN /\ mpc' = "batch_results"
                     /\ batch_error' = batch_error
                     /\ elapsed' = 0
                ELSE IF IsFailureStatus(job_status)
                THEN /\ mpc' = "batch_failed"
                     /\ batch_error' = "JobFailed"
                     /\ elapsed' = 0
                ELSE /\ mpc' = mpc
                     /\ batch_error' = batch_error
                     /\ \E latency \in {0, STATUS_REQUEST_TIMEOUT} :
                           elapsed' = ElapsedAfterSleep(elapsed, latency)
    /\ UNCHANGED <<compVars, fnVars, cfgVars, planVars, accVars, batch_requests, chunk_info, submitted,
                   job_id, batch_results, chunk_idx, result, error>>

\* raise Exception("Batch job timed out after ... seconds")
BatchWaitTimeout ==
    /\ mpc = "batch_wait"
    /\ ~WaitLoopContinues(elapsed)
    /\ mpc' = "batch_failed"
    /\ batch_error' = "Timeout"
    /\ elapsed' = 0
    /\ UNCHANGED <<compVars, fnVars, cfgVars, planVars, accVars, batch_requests, chunk_info, submitted,
                   job_id, last_status, batch_results, chunk_idx, result, error>>

\* batch_results = self._get_batch_results(job_id): the status request, the
\* missing output file, the download or the JSONL decoding raises, or the
\* lines of the output file are returned
BatchGetResults ==
    /\ mpc = "batch_results"
    /\ \/ /\ mpc' = "batch_failed"
          /\ batch_error' = "ResultFetchError"
          /\ batch_results' = batch_results
       \/ \E lines \in BatchResultLists(num_chunks) :
             /\ batch_results' = TagLines(lines)
             /\ mpc' = "batch_process"
             /\ batch_error' = batch_error
    /\ UNCHANGED <<compVars, fnVars, cfgVars, planVars, accVars, batch_requests, chunk_info, submitted,
                   job_id, elapsed, last_status, chunk_idx, result, error>>

\* "Process results" to the return of _process_chunks_batch
BatchProcessResults ==
    /\ mpc = "batch_process"
    /\ LET acc == BatchFold(chunk_info, 1, ResultsMap(batch_results),
                            [records |-> <<>>, input_tokens |-> 0, output_tokens |-> 0])
       IN  result' = [mode |-> "batch",
                      records |-> DeduplicateRecords(acc.records),
                      input_tokens |-> acc.input_tokens,
                      output_tokens |-> acc.output_tokens]
    /\ mpc' = "done"
    /\ UNCHANGED <<compVars, fnVars, cfgVars, planVars, batchVars, accVars, chunk_idx, batch_error, error>>

\* a result line that is not of the expected shape (no custom_id, content
\* that is not text, a top-level JSON value that is not an object) raises
\* while the results are processed
BatchProcessRaises ==
    /\ mpc = "batch_process"
    /\ mpc' = "batch_failed"
    /\ batch_error' = "ResultFormatError"
    /\ UNCHANGED <<compVars, fnVars, cfgVars, planVars, batchVars, accVars, chunk_idx, result, error>>

\* faulty variant of BatchFallback: a partial retry that skips the first chunk
BatchFallbackFromSecondChunk ==
    /\ mpc = "batch_failed"
    /\ mpc' = "sequential"
    /\ chunk_idx' = 1
    /\ sync_log' = <<>>
    /\ all_records' = <<>>
    /\ total_input_tokens' = 0
    /\ total_output_tokens' = 0
    /\ batch_requests' = <<>>
    /\ chunk_info' = <<>>
    /\ batch_results' = <<>>
    /\ UNCHANGED <<compVars, fnVars, cfgVars, planVars, submitted, job_id, elapsed, last_status,
                   batch_error, result, error>>

\* except Exception: the locals of _process_chunks_batch are gone; re-read
\* the PDF and run _process_chunks_sequential on the same total_pages and
\* num_chunks
BatchFallback ==
    /\ mpc = "batch_failed"
    /\ mpc' = "sequential"
    /\ chunk_idx' = 0
    /\ sync_log' = <<>>
    /\ all_records' = <<>>
    /\ total_input_tokens' = 0
    /\ total_output_tokens' = 0
    /\ batch_requests' = <<>>
    /\ chunk_info' = <<>>
    /\ batch_results' = <<>>
    /\ UNCHANGED <<compVars, fnVars, cfgVars, planVars, submitted, job_id, elapsed, last_status,
                   batch_error, result, error>>

\* one iteration of the loop of _process_chunks_sequential: the chunk is
\* written to a temporary file and sent through _process_single; an
\* exception leaves the loop and process_pdf
SeqChunk ==
    /\ mpc = "sequential"
    /\ chunk_idx < num_chunks
    /\ \E out \in SyncOutcomes :
          /\ sync_log' = Append(sync_log, [chunk_idx |-> chunk_idx, out |-> out])
          /\ IF out.ok
             THEN /\ all_records' = all_records \o
                        AdjustRecords(
                            TagRecords(out.body.content,
                                       [id |-> <<"sync", chunk_idx>>, line |-> 0]),
                            ChunkStartPage(chunk_idx, MAX_PAGES_PER_CHUNK), chunk_idx)
                  /\ total_input_tokens' = AddTokens(total_input_tokens, out.body.prompt_tokens)
                  /\ total_output_tokens' =
                        AddTokens(total_output_tokens, out.body.completion_tokens)
                  /\ chunk_idx' = chunk_idx + 1
                  /\ UNCHANGED <<mpc, error>>
             ELSE /\ mpc' = "failed"
                  /\ error' = "SyncError"
                  /\ UNCHANGED <<all_records, total_input_tokens, total_output_tokens, chunk_idx>>
    /\ UNCHANGED <<compVars, fnVars, cfgVars, planVars, batchVars, batch_error, result>>

\* "Deduplicate records" to the return of _process_chunks_sequential
SeqFinish ==
    /\ mpc = "sequential"
    /\ chunk_idx = num_chunks
    /\ result' = [mode |-> "sequential",
                  records |-> DeduplicateRecords(all_records),
                  input_tokens |-> total_input_tokens,
                  output_tokens |-> total_output_tokens]
    /\ mpc' = "done"
    /\ UNCHANGED <<compVars, fnVars, cfgVars, planVars, batchVars, accVars, chunk_idx, batch_error, error>>

(***************************************************************************)
(* Specification of process_pdf                                            *)
(***************************************************************************)
MaxChunks == 3

\* page counts at both ends of every chunk count 1..MaxChunks
DocumentSizes ==
    UNION {{k * MAX_PAGES_PER_CHUNK + 1, (k + 1) * MAX_PAGES_PER_CHUNK} : k \in 0..(MaxChunks - 1)}

PlanIdle ==
    /\ max_pages = MAX_PAGES_PER_CHUNK
    /\ pc = "idle"
    /\ start_page = 0
    /\ split_files = <<>>
    /\ dispatched = {}
    /\ mistral_plan = <<>>

FnIdle ==
    /\ fn_pc = "idle"
    /\ fn_in = <<>>
    /\ fn_out = <<>>

\* no process_file call is running and temp_splits does not exist
EobIdle ==
    /\ temp_splits = [exists |-> FALSE, files |-> <<>>]
    /\ runs = <<>>

\* no provider call is running
CallIdle == call = [pc |-> "idle"]

CostIdle == cost = [pc |-> "idle"]

ProcIdle == proc = [pc |-> "idle"]

CleanIdle == clean = [pc |-> "idle"]

CompIdle == EobIdle /\ CallIdle /\ CostIdle /\ ProcIdle /\ CleanIdle

MistralStart ==
    /\ chunk_idx = 0
    /\ batch_requests = <<>>
    /\ chunk_info = <<>>
    /\ submitted = <<>>
    /\ job_id = NoJob
    /\ elapsed = 0
    /\ last_status = "none"
    /\ batch_results = <<>>
    /\ batch_error = NoError
    /\ sync_log = <<>>
    /\ all_records = <<>>
    /\ total_input_tokens = 0
    /\ total_output_tokens = 0
    /\ result = NoResult
    /\ error = NoError

Init ==
    /\ total_pages \in DocumentSizes
    /\ api_key_set \in BOOLEAN
    /\ use_batch \in BOOLEAN
    /\ mpc = "process_pdf"
    /\ MistralStart
    /\ PlanIdle
    /\ FnIdle
    /\ CompIdle

Next ==
    \/ ProcessPdfNoKey
    \/ ProcessPdfUnreadable
    \/ ProcessPdfRoute
    \/ ProcessSingle
    \/ ProcessWithChunking
    \/ BatchPrepareChunk
    \/ BatchPrepareError
    \/ BatchSubmit
    \/ BatchPoll
    \/ BatchWaitTimeout
    \/ BatchGetResults
    \/ BatchProcessResults
    \/ BatchProcessRaises
    \/ BatchFallback
    \/ SeqChunk
    \/ SeqFinish

Spec == Init /\ [][Next]_vars


(***************************************************************************)
(* process_pdf up to the end of _wait_for_batch_completion.  The wait loop *)
(* is a running thread whose status requests return or raise within their  *)
(* timeout, so an enabled loop step is eventually taken.                   *)
(***************************************************************************)
NextWait ==
    \/ ProcessPdfNoKey
    \/ ProcessPdfUnreadable
    \/ ProcessPdfRoute
    \/ ProcessWithChunking
    \/ BatchPrepareChunk
    \/ BatchPrepareError
    \/ BatchSubmit
    \/ BatchPoll
    \/ BatchWaitTimeout

SpecWait ==
    /\ Init
    /\ [][NextWait]_vars
    /\ WF_vars(BatchPoll)
    /\ WF_vars(BatchWaitTimeout)

(***************************************************************************)
(* Specification of the planners                                           *)
(***************************************************************************)
PlanChunkLimits == ((0 - MaxChunkSize)..MaxChunkSize) \cup {MAX_PAGES_PER_CHUNK}

InitPlan ==
    /\ total_pages \in 1..MaxPlanPages
    /\ max_pages \in PlanChunkLimits
    /\ pc = "split_entry"
    /\ start_page = 0
    /\ split_files = <<>>
    /\ dispatched = {}
    /\ mistral_plan = <<>>
    /\ api_key_set = TRUE
    /\ use_batch = FALSE
    /\ mpc = "idle"
    /\ MistralStart
    /\ FnIdle
    /\ CompIdle

NextPlan ==
    \/ SplitPdfSingle
    \/ SplitPdfRangeError
    \/ SplitPdfEnterLoop
    \/ SplitPdfLoop
    \/ SplitPdfReturn
    \/ ProcessFileDispatch
    \/ ProcessFileSplitError
    \/ MistralPlan

SpecPlan == InitPlan /\ [][NextPlan]_vars

(***************************************************************************)
(* Properties of the planners                                              *)
(***************************************************************************)
\* 1-based inclusive page ranges of a chunk_info list
PlanRanges(plan) ==
    [i \in 1..Len(plan) |-> [start |-> plan[i].start_page + 1, end |-> plan[i].end_page]]

\* ranges are ascending and contiguous, and every page of 1..total lies in
\* exactly one of them; no range reaches outside 1..total
CoversExactly(ranges, total) ==
    /\ Len(ranges) >= 1
    /\ \A i \in 1..Len(ranges) : ranges[i].start >= 1 /\ ranges[i].end <= total
    /\ \A i \in 1..(Len(ranges) - 1) : ranges[i + 1].start = ranges[i].end + 1
    /\ \A p \in 1..total :
          Cardinality({i \in 1..Len(ranges) : ranges[i].start <= p /\ p <= ranges[i].end}) = 1

\* C1: for total_pages >= 1 and a chunk limit >= 1 the chunks of split_pdf and
\* of the Mistral chunk loop are contiguous, non-overlapping, ascending, and
\* their union is exactly 1..total_pages.
C1_ChunksPartitionPages ==
    max_pages >= 1 =>
        /\ pc = "split_returned" => CoversExactly(split_files, total_pages)
        /\ mistral_plan # <<>> => CoversExactly(PlanRanges(mistral_plan), total_pages)

\* a split into three or more chunks whose last chunk is a partial one
C1_Witness ==
    /\ max_pages >= 2
    /\ pc = "split_returned"
    /\ Len(split_files) >= 3
    /\ split_files[Len(split_files)].end - split_files[Len(split_files)].start + 1 < max_pages
    /\ Len(mistral_plan) >= 3

\* n = ceil(total / maxp), stated without the rounding-up division
IsCeilDiv(n, total, maxp) == (n - 1) * maxp < total /\ total <= n * maxp

ChunkCountAndSizes(ranges, total, maxp) ==
    IF total <= maxp
    THEN ranges = <<[start |-> 1, end |-> total]>>
    ELSE /\ IsCeilDiv(Len(ranges), total, maxp)
         /\ \A i \in 1..Len(ranges) :
               /\ ranges[i].end - ranges[i].start + 1 >= 1
               /\ ranges[i].end - ranges[i].start + 1 <= maxp

\* C2: with total_pages <= max_pages_per_chunk there is exactly one chunk
\* spanning the whole document; otherwise there are exactly
\* ceil(total_pages / max_pages_per_chunk) chunks of 1..max_pages_per_chunk
\* pages each (chunk limit >= 1).
C2_ChunkCount ==
    max_pages >= 1 =>
        /\ pc = "split_returned" => ChunkCountAndSizes(split_files, total_pages, max_pages)
        /\ mistral_plan # <<>> =>
              ChunkCountAndSizes(PlanRanges(mistral_plan), total_pages, max_pages)

\* both branches happen: a chunked plan whose page count is a multiple of the
\* limit, next to a returned split
C2_Witness ==
    /\ max_pages >= 2
    /\ total_pages = 3 * max_pages
    /\ pc = "split_returned"
    /\ Len(split_files) = 3
    /\ Len(mistral_plan) = 3

\* C3: planning with max_pages_per_chunk <= 0 fails with an error: split_pdf
\* never returns a chunk list (in particular not an empty one) and
\* process_file dispatches nothing and does not report success.
C3_InvalidLimitFails ==
    max_pages <= 0 =>
        /\ pc # "split_returned"
        /\ pc # "pf_success"
        /\ dispatched = {}

(***************************************************************************)
(* Properties of process_pdf                                               *)
(***************************************************************************)
RECURSIVE SumOver(_, _)
SumOver(f, S) ==
    IF S = {} THEN 0
    ELSE LET x == CHOOSE y \in S : TRUE IN f[x] + SumOver(f, S \ {x})

ChunkIndexes == 0..(num_chunks - 1)

Finished == mpc \in {"done", "failed"}

\* chunk indexes of the synchronous calls of the running sequential loop
SequentialDispatches == [i \in 1..Len(sync_log) |-> sync_log[i].chunk_idx]

AllChunksInOrder == [i \in 1..num_chunks |-> i - 1]

\* the abnormal endings of the batch path: submission error, job status
\* FAILED / CANCELLED / EXPIRED, status or result fetch error, wait ceiling
ListedBatchFailures ==
    {"SubmitError", "JobFailed", "StatusError", "ResultFetchError", "Timeout"}

\* C4: whenever the batch path of a multi-chunk document ended abnormally, the
\* processor then dispatches every chunk 0..num_chunks-1 sequentially, and the
\* batch error is not surfaced to the caller.
C4_FallbackDispatchesEveryChunk ==
    (batch_error \in ListedBatchFailures /\ Finished) =>
        /\ SequentialDispatches = AllChunksInOrder
        /\ error \in {NoError, "SyncError"}

\* what _process_chunks_sequential returns for the answers outs[1..n] to the
\* calls for chunks 0..n-1, all of them successful
DirectSequentialRecords(outs) ==
    LET perChunk == [i \in 1..Len(outs) |->
                        AdjustRecords(
                            TagRecords(outs[i].body.content,
                                       [id |-> <<"sync", i - 1>>, line |-> 0]),
                            (i - 1) * MAX_PAGES_PER_CHUNK, i - 1)]
        Concat[i \in 0..Len(outs)] ==
            IF i = 0 THEN <<>> ELSE Concat[i - 1] \o perChunk[i]
    IN  DeduplicateRecords(Concat[Len(outs)])

DirectSequentialResult(outs) ==
    [mode |-> "sequential",
     records |-> DirectSequentialRecords(outs),
     input_tokens |-> SumOver([i \in 1..Len(outs) |-> outs[i].body.prompt_tokens],
                              1..Len(outs)),
     output_tokens |-> SumOver([i \in 1..Len(outs) |-> outs[i].body.completion_tokens],
                               1..Len(outs))]

SyncAnswers == [i \in 1..Len(sync_log) |-> sync_log[i].out]

\* C5: after a failed batch attempt (in particular a throwing submission) the
\* fallback ends as direct sequential processing of the same document does on
\* the same per-chunk provider answers: the same records and token totals
\* when every call succeeds, the same synchronous error when one raises.
C5_FallbackEqualsSequential ==
    /\ (mpc = "done" /\ result.mode = "sequential") =>
          /\ SequentialDispatches = AllChunksInOrder
          /\ \A i \in 1..Len(sync_log) : sync_log[i].out.ok
          /\ result = DirectSequentialResult(SyncAnswers)
    /\ (mpc = "failed" /\ batch_error # NoError) =>
          /\ error = "SyncError"
          /\ Len(sync_log) >= 1
          /\ ~sync_log[Len(sync_log)].out.ok
          /\ \A i \in 1..Len(sync_log) : sync_log[i].chunk_idx = i - 1

\* a three-chunk document whose batch submission threw and whose fallback
\* returned deduplicated records of several chunks
C5_Witness ==
    /\ mpc = "done"
    /\ batch_error = "SubmitError"
    /\ num_chunks = 3
    /\ result.mode = "sequential"
    /\ Len(all_records) > Len(result.records)
    /\ Len(result.records) >= 2

TerminalStatuses == {"SUCCESS", "FAILED", "CANCELLED", "EXPIRED"}

\* C6: batch polling always ends: the wait loop is left after finitely many
\* status requests, whatever statuses the provider reports, and no status
\* request of the loop follows a SUCCESS, FAILED, CANCELLED or EXPIRED answer
\* or the reaching of the wait ceiling.
C6_PollingEnds ==
    /\ [](mpc = "batch_wait" => <>(mpc # "batch_wait"))
    /\ [][BatchPoll =>
            /\ last_status \notin TerminalStatuses
            /\ elapsed < BATCH_MAX_WAIT_TIME]_vars
    /\ [](elapsed < BATCH_MAX_WAIT_TIME + BATCH_POLL_INTERVAL + STATUS_REQUEST_TIMEOUT)

\* the job was still running after polling for the whole wait ceiling
C6_Witness ==
    /\ mpc = "batch_wait"
    /\ last_status = "RUNNING"
    /\ elapsed >= BATCH_MAX_WAIT_TIME

\* position of the last line of batch_results with this custom_id, 0 if none
LastLineOf(custom_id) ==
    LET S == {j \in 1..Len(batch_results) : batch_results[j].custom_id = custom_id}
    IN  IF S = {} THEN 0 ELSE CHOOSE j \in S : \A k \in S : k <= j

\* the chunk has a result line with choices
Usable(c) ==
    /\ LastLineOf(<<"chunk_", c>>) # 0
    /\ batch_results[LastLineOf(<<"chunk_", c>>)].choices

\* a parsed record of chunk c in the page numbering of the document
InDocumentPages(record, c) ==
    [record EXCEPT
        !.Original_page_no =
            IF record.Original_page_no.kind = "int"
            THEN PageInt((c * MAX_PAGES_PER_CHUNK + 1) + (record.Original_page_no.val - 1))
            ELSE IF record.Original_page_no.kind = "absent"
                 THEN PageInt(c * MAX_PAGES_PER_CHUNK + 1)
                 ELSE record.Original_page_no,
        !.chunk = c]

\* C7: in batch mode every record of the consolidated result comes from the
\* result line whose custom_id is the index of the chunk it is attributed to,
\* with that chunk's page offset; a chunk whose custom_id is absent from the
\* results, or whose line has no choices, contributes no records and no
\* tokens and is not filled in from another line.
C7_BatchResultsCorrelated ==
    (mpc = "done" /\ result.mode = "batch") =>
        /\ \A k \in 1..Len(result.records) :
              LET r == result.records[k]
                  j == LastLineOf(<<"chunk_", r.chunk>>)
              IN  /\ r.chunk \in ChunkIndexes
                  /\ Usable(r.chunk)
                  /\ r.origin = [id |-> <<"chunk_", r.chunk>>, line |-> j]
                  /\ \E m \in 1..Len(batch_results[j].body.content) :
                        r = InDocumentPages(batch_results[j].body.content[m], r.chunk)
        /\ result.input_tokens =
              SumOver([c \in ChunkIndexes |->
                          IF Usable(c)
                          THEN batch_results[LastLineOf(<<"chunk_", c>>)].body.prompt_tokens
                          ELSE 0], ChunkIndexes)
        /\ result.output_tokens =
              SumOver([c \in ChunkIndexes |->
                          IF Usable(c)
                          THEN batch_results[LastLineOf(<<"chunk_", c>>)].body.completion_tokens
                          ELSE 0], ChunkIndexes)

\* a batch result with records although one chunk has no line at all, another
\* only a line without choices, and a line with a foreign custom_id is present
C7_Witness ==
    /\ mpc = "done"
    /\ result.mode = "batch"
    /\ num_chunks = 3
    /\ Len(result.records) >= 1
    /\ \E c \in ChunkIndexes : LastLineOf(<<"chunk_", c>>) = 0
    /\ \E c \in ChunkIndexes :
          LastLineOf(<<"chunk_", c>>) # 0 /\ ~batch_results[LastLineOf(<<"chunk_", c>>)].choices
    /\ LastLineOf(<<"chunk_", num_chunks>>) # 0

\* C8: for a multi-chunk document processed in batch mode exactly one batch
\* job is submitted, with one request per chunk; the wait loop asks for the
\* status only once the submission has returned a job id; results are
\* fetched only after a status request returned SUCCESS.
C8_BatchProtocolOrder ==
    /\ Len(submitted) <= 1
    /\ last_status # "none" => (job_id # NoJob /\ Len(submitted) = 1)
    /\ (mpc \in {"batch_results", "batch_process"} \/ result.mode = "batch") =>
          last_status = "SUCCESS"
    /\ (mpc = "done" /\ result.mode = "batch") =>
          /\ Len(submitted) = 1
          /\ Len(submitted[1]) = num_chunks
          /\ \A i \in 1..num_chunks :
                /\ submitted[1][i].custom_id = <<"chunk_", i - 1>>
                /\ submitted[1][i].first_page = (i - 1) * MAX_PAGES_PER_CHUNK + 1

\* a 90-page document processed as one batch job of three requests
C8_Witness ==
    /\ mpc = "done"
    /\ result.mode = "batch"
    /\ total_pages = 3 * MAX_PAGES_PER_CHUNK
    /\ Len(submitted[1]) = 3
    /\ Len(result.records) >= 2

\* C9: a batch job is submitted only when batching is enabled and the
\* document has more than one chunk: never for total_pages <=
\* MAX_PAGES_PER_CHUNK, never when use_batch is false.
C9_BatchOnlyWhenEnabled ==
    (submitted # <<>> \/ mpc \in {"batch_prepare", "batch_wait", "batch_results",
                                  "batch_process", "batch_failed"}
                      \/ result.mode = "batch") =>
        /\ use_batch
        /\ total_pages > MAX_PAGES_PER_CHUNK
        /\ num_chunks > 1

\* a multi-chunk document processed to the end with batching switched off
C9_Witness ==
    /\ mpc = "done"
    /\ ~use_batch
    /\ total_pages > MAX_PAGES_PER_CHUNK
    /\ result.mode = "sequential"
    /\ submitted = <<>>

\* token counts of chunk c on the path taken: the usage of the chunk's answer,
\* 0 for a chunk without a usable answer
ChunkPromptTokens(c) ==
    IF result.mode = "batch"
    THEN IF Usable(c) THEN batch_results[LastLineOf(<<"chunk_", c>>)].body.prompt_tokens ELSE 0
    ELSE sync_log[c + 1].out.body.prompt_tokens

ChunkCompletionTokens(c) ==
    IF result.mode = "batch"
    THEN IF Usable(c)
         THEN batch_results[LastLineOf(<<"chunk_", c>>)].body.completion_tokens ELSE 0
    ELSE sync_log[c + 1].out.body.completion_tokens

ResultChunks == IF result.mode = "single" THEN {0} ELSE ChunkIndexes

PageStr(n) == [kind |-> "str", val |-> n]
PageEmpty == [kind |-> "empty", val |-> 0]
PageText == [kind |-> "text", val |-> 0]

\* a record of the OpenAI extractor ("" stands for a missing or empty field)
OpenAIRecord(acct, ins, page) ==
    [patient_acct |-> acct, service_date |-> "", paid_amount |-> "",
     insurance_co |-> ins, Page_no |-> page]

\* a record of the Mistral processor with a field outside the identity fields
MistralRecord(acct, ins, page) ==
    [Claim_ID |-> "", patient_acct |-> acct, Patient_Name |-> "",
     service_date |-> "", paid_amount |-> "", insurance_co |-> ins,
     Original_page_no |-> page, origin |-> NoOrigin, chunk |-> 0 - 1]

\* if 'Page_no' in record and record['Page_no']: the value is truthy
PageNoIsTruthy(page) ==
    /\ page.kind \notin {"absent", "empty", "other"}
    /\ ~(page.kind = "int" /\ page.val = 0)

\* faulty variant of OffsetPageNo: the chunk's start page is added as if it were 0-based
OffsetPageNoZeroBased(record, chunk_start) ==
    IF PageNoIsTruthy(record.Page_no) /\ record.Page_no.kind \in {"int", "str"}
    THEN [record EXCEPT !.Page_no = PageStr(record.Page_no.val + chunk_start)]
    ELSE record

\* page_num = int(record['Page_no']);
\* record['Page_no'] = str(page_num + chunk['start_page'] - 1);
\* except (ValueError, TypeError): pass
OffsetPageNo(record, chunk_start) ==
    IF PageNoIsTruthy(record.Page_no) /\ record.Page_no.kind \in {"int", "str"}
    THEN [record EXCEPT !.Page_no = PageStr(record.Page_no.val + chunk_start - 1)]
    ELSE record

\* page values a provider returns for a record of a chunk: local pages
\* 0..MAX_PAGES_PER_CHUNK as an int or as a numeric string, or no number
PageValues ==
    {PageAbsent, PageEmpty, PageText, PageOther}
    \cup {PageInt(p) : p \in 0..MAX_PAGES_PER_CHUNK}
    \cup {PageStr(p) : p \in 0..MAX_PAGES_PER_CHUNK}

\* the chunks of a document of MaxChunks full chunks
OffsetChunks == {ChunkInfo(i, MaxChunks * MAX_PAGES_PER_CHUNK, MAX_PAGES_PER_CHUNK) :
                    i \in 0..(MaxChunks - 1)}

\* the Mistral chunk loops adjust a record of the chunk
MistralAdjustPage ==
    /\ fn_pc = "offset_entry"
    /\ fn_out' = AdjustRecord(MistralRecord("P", "", fn_in.page),
                              fn_in.chunk.start_page, fn_in.chunk.chunk_idx).Original_page_no
    /\ fn_pc' = "mistral_adjusted"
    /\ UNCHANGED <<compVars, total_pages, planVars, mistralVars, fn_in>>

\* the OpenAI chunk loop offsets a record of the chunk; its chunk dict holds
\* the 1-based first page
OpenAIOffsetPage ==
    /\ fn_pc = "offset_entry"
    /\ fn_out' = OffsetPageNo(OpenAIRecord("P", "", fn_in.page),
                              fn_in.chunk.start_page + 1).Page_no
    /\ fn_pc' = "openai_offset"
    /\ UNCHANGED <<compVars, total_pages, planVars, mistralVars, fn_in>>

InitOffset ==
    /\ total_pages = MaxChunks * MAX_PAGES_PER_CHUNK
    /\ api_key_set = TRUE
    /\ use_batch = FALSE
    /\ mpc = "idle"
    /\ MistralStart
    /\ PlanIdle
    /\ fn_pc = "offset_entry"
    /\ fn_in \in [chunk : OffsetChunks, page : PageValues]
    /\ fn_out = <<>>
    /\ CompIdle

NextOffset ==
    \/ MistralAdjustPage
    \/ OpenAIOffsetPage

SpecOffset == InitOffset /\ [][NextOffset]_vars

\* the local page number a page value carries, 0 if it carries none
LocalPageOf(page) == IF page.kind \in {"int", "str"} THEN page.val ELSE 0

\* the page value is the number n, as an int or as a decimal string
IsPageNumber(page, n) == page.kind \in {"int", "str"} /\ page.val = n

\* C11: a record that carries local page p (1-based, within the chunk) is
\* rewritten to chunk.start_page + (p - 1), chunk.start_page being the chunk's
\* 1-based first page; a record without the field gets chunk.start_page.
C11_PageOffsetCorrection ==
    fn_pc \in {"mistral_adjusted", "openai_offset"} =>
        LET first_page == fn_in.chunk.start_page + 1
            p == LocalPageOf(fn_in.page)
        IN  /\ p >= 1 => IsPageNumber(fn_out, first_page + (p - 1))
            /\ fn_in.page = PageAbsent => IsPageNumber(fn_out, first_page)

(***************************************************************************)
(* Page numbers of the consolidated records of process_pdf                 *)
(***************************************************************************)
\* C12: after consolidation of a chunked document every record carries a
\* page number (an integer) in the numbering of the original document: it is
\* never a value the provider's local numbering was left in, nor a non-number,
\* and it does not lie before the first page of the chunk the record was
\* extracted from (how far it lies behind that page is the provider's local
\* page number, which the chunk's length bounds).
C12_RecordPagesInChunkRange ==
    (mpc = "done" /\ result.mode \in {"sequential", "batch"}) =>
        \A k \in 1..Len(result.records) :
            LET r == result.records[k]
                first_page == ChunkStartPage(r.chunk, MAX_PAGES_PER_CHUNK) + 1
                page == r.Original_page_no
            IN  /\ page.kind = "int"
                /\ page.val >= first_page

(***************************************************************************)
(* Consolidation of the records of several chunk results:                  *)
(*   MistralProcessor: page adjustment, then _deduplicate_records;         *)
(*   OpenAIExtractor: page offset, then _consolidate_records.              *)
(***************************************************************************)
MaxRecords == 3

\* key = (record.get('patient_acct', ''), record.get('service_date', ''),
\*        record.get('paid_amount', ''))
ConsolidationKey(record) == <<record.patient_acct, record.service_date, record.paid_amount>>

EmptyConsolidationKey == <<"", "", "">>

\* if v and (not existing.get(k) or existing.get(k) == ''): existing[k] = v
MergeText(existing_value, v) ==
    IF v # "" /\ existing_value = "" THEN v ELSE existing_value

MergePageNo(existing_value, v) ==
    IF PageNoIsTruthy(v) /\ ~PageNoIsTruthy(existing_value) THEN v ELSE existing_value

\* "Merge records - keep non-empty values": the loop over record.items()
MergeInto(existing, record) ==
    [patient_acct |-> MergeText(existing.patient_acct, record.patient_acct),
     service_date |-> MergeText(existing.service_date, record.service_date),
     paid_amount |-> MergeText(existing.paid_amount, record.paid_amount),
     insurance_co |-> MergeText(existing.insurance_co, record.insurance_co),
     Page_no |-> MergePageNo(existing.Page_no, record.Page_no)]

\* position of key in the dict seen (insertion order), 0 if it is not a key
SeenPosition(seen, key) ==
    LET S == {j \in 1..Len(seen) : seen[j].key = key}
    IN  IF S = {} THEN 0 ELSE CHOOSE j \in S : TRUE

\* the loop of the EOB branch over records; seen is the dict, in insertion
\* order; assigning to a key that is present keeps its position
RECURSIVE ConsolidateFrom(_, _, _)
ConsolidateFrom(records, i, seen) ==
    IF i > Len(records) THEN seen
    ELSE LET record == records[i]
             key == ConsolidationKey(record)
             pos == SeenPosition(seen, key)
         IN  IF pos = 0
             THEN ConsolidateFrom(records, i + 1, Append(seen, [key |-> key, record |-> record]))
             ELSE IF key = EmptyConsolidationKey
                  THEN ConsolidateFrom(records, i + 1, [seen EXCEPT ![pos].record = record])
                  ELSE ConsolidateFrom(records, i + 1,
                          [seen EXCEPT ![pos].record = MergeInto(seen[pos].record, record)])

DocumentCategories == {"EOB", "FACESHEET", "INVOICE"}

\* _consolidate_records
ConsolidateRecords(records, doc_category) ==
    IF records = <<>> THEN <<>>
    ELSE IF doc_category = "EOB"
         THEN LET seen == ConsolidateFrom(records, 1, <<>>)
              IN  [j \in 1..Len(seen) |-> seen[j].record]
         ELSE records

\* what a provider answers for one chunk holding one record: the account, a
\* field outside the identity fields, and the local page
ChunkAnswers ==
    [acct : {"", "P", "Q"}, ins : {"", "x", "y"}, page : {PageAbsent, PageInt(3)}]

\* all_records of the Mistral chunk loops when chunk k - 1 answered answers[k]
MistralAllRecords(answers) ==
    [k \in 1..Len(answers) |->
        AdjustRecord(MistralRecord(answers[k].acct, answers[k].ins, answers[k].page),
                     ChunkStartPage(k - 1, MAX_PAGES_PER_CHUNK), k - 1)]

\* all_records of the OpenAI chunk loop when chunk k answered answers[k] and
\* the chunks start at pages 1, 31, 61, ...
OpenAIAllRecords(answers) ==
    [k \in 1..Len(answers) |->
        OffsetPageNo(OpenAIRecord(answers[k].acct, answers[k].ins, answers[k].page),
                     ChunkStartPage(k - 1, MAX_PAGES_PER_CHUNK) + 1)]

Reverse(s) == [k \in 1..Len(s) |-> s[Len(s) + 1 - k]]

\* a consolidated list handed in again as the only chunk of a document, the
\* chunk starting at page 1 (start_page 0 in the Mistral loops)
MistralReconsolidate(records) ==
    DeduplicateRecords([k \in 1..Len(records) |-> AdjustRecord(records[k], 0, records[k].chunk)])

OpenAIReconsolidate(records, doc_category) ==
    ConsolidateRecords([k \in 1..Len(records) |-> OffsetPageNo(records[k], 1)], doc_category)

\* the Mistral consolidation of the chunk results, of the same chunk results
\* in reverse order, and of its own output
MistralConsolidate ==
    /\ fn_pc = "consolidate_entry"
    /\ LET records == MistralAllRecords(fn_in)
           first == DeduplicateRecords(records)
       IN  fn_out' = [category |-> "EOB",
                      all_records |-> records,
                      records |-> first,
                      reversed |-> DeduplicateRecords(Reverse(records)),
                      again |-> MistralReconsolidate(first)]
    /\ fn_pc' = "mistral_consolidated"
    /\ UNCHANGED <<compVars, total_pages, planVars, mistralVars, fn_in>>

\* the same for the OpenAI consolidation, in any document category
OpenAIConsolidate ==
    /\ fn_pc = "consolidate_entry"
    /\ \E doc_category \in DocumentCategories :
          LET records == OpenAIAllRecords(fn_in)
              first == ConsolidateRecords(records, doc_category)
          IN  fn_out' = [category |-> doc_category,
                         all_records |-> records,
                         records |-> first,
                         reversed |-> ConsolidateRecords(Reverse(records), doc_category),
                         again |-> OpenAIReconsolidate(first, doc_category)]
    /\ fn_pc' = "openai_consolidated"
    /\ UNCHANGED <<compVars, total_pages, planVars, mistralVars, fn_in>>

InitConsolidate ==
    /\ total_pages = MaxRecords * MAX_PAGES_PER_CHUNK
    /\ api_key_set = TRUE
    /\ use_batch = FALSE
    /\ mpc = "idle"
    /\ MistralStart
    /\ PlanIdle
    /\ fn_pc = "consolidate_entry"
    /\ fn_in \in UNION {[1..n -> ChunkAnswers] : n \in 0..MaxRecords}
    /\ fn_out = <<>>
    /\ CompIdle

NextConsolidate ==
    \/ MistralConsolidate
    \/ OpenAIConsolidate

SpecConsolidate == InitConsolidate /\ [][NextConsolidate]_vars

Consolidated == fn_pc \in {"mistral_consolidated", "openai_consolidated"}

\* the deduplication key of a record under the implementation that ran, and
\* whether it is the empty key
KeyOf(record) ==
    IF fn_pc = "mistral_consolidated" THEN DedupKey(record) ELSE ConsolidationKey(record)

IsEmptyKey(key) == key = <<>> \/ key = EmptyConsolidationKey

\* C13: the record list of a consolidated result never holds two records
\* whose deduplication key is identical and non-empty.
C13_NoDuplicateKeys ==
    Consolidated =>
        \A i, j \in 1..Len(fn_out.records) :
            (i # j /\ ~IsEmptyKey(KeyOf(fn_out.records[i])))
                => KeyOf(fn_out.records[i]) # KeyOf(fn_out.records[j])

\* how often a record occurs in a list
Occurrences(records, r) == Cardinality({i \in 1..Len(records) : records[i] = r})

\* C14: records whose deduplication key is entirely empty are never
\* deduplicated against each other: every such record of the input to
\* consolidation is in the output, unchanged, as often as it is in the input.
C14_EmptyKeyRecordsKept ==
    Consolidated =>
        \A i \in 1..Len(fn_out.all_records) :
            LET r == fn_out.all_records[i]
            IN  IsEmptyKey(KeyOf(r)) =>
                    Occurrences(fn_out.records, r) = Occurrences(fn_out.all_records, r)

\* the values a record holds besides its bookkeeping: the text fields and the
\* page field of the implementation that ran
TextFields == {"patient_acct", "service_date", "paid_amount", "insurance_co"}

PageField == IF fn_pc = "mistral_consolidated" THEN "Original_page_no" ELSE "Page_no"

\* the value of the earliest record of the list whose value is non-empty
FirstNonEmptyText(records, f) ==
    LET S == {i \in 1..Len(records) : records[i][f] # ""}
    IN  IF S = {} THEN "" ELSE records[CHOOSE i \in S : \A j \in S : i <= j][f]

FirstNonEmptyPage(records) ==
    LET S == {i \in 1..Len(records) : PageNoIsTruthy(records[i][PageField])}
    IN  IF S = {} THEN records[1][PageField]
        ELSE records[CHOOSE i \in S : \A j \in S : i <= j][PageField]

\* the records of the input to consolidation that share the key, in arrival order
SharingKey(key) == SelectSeq(fn_out.all_records, LAMBDA r : KeyOf(r) = key)

\* C15: records sharing a non-empty key are merged field by field, first
\* non-empty value wins: the output holds for that key a record in which
\* every field has the value of the earliest record in arrival order whose
\* value for the field is non-empty.
C15_FirstNonEmptyWins ==
    Consolidated =>
        \A i \in 1..Len(fn_out.all_records) :
            LET key == KeyOf(fn_out.all_records[i])
                group == SharingKey(key)
            IN  ~IsEmptyKey(key) =>
                    \E j \in 1..Len(fn_out.records) :
                        LET merged == fn_out.records[j]
                        IN  /\ KeyOf(merged) = key
                            /\ \A f \in TextFields : merged[f] = FirstNonEmptyText(group, f)
                            /\ merged[PageField] = FirstNonEmptyPage(group)

\* a record without the bookkeeping of the model
FieldValues(record) ==
    [f \in TextFields \cup {"page"} |->
        IF f = "page" THEN record[PageField] ELSE record[f]]

RecordSet(records) == {FieldValues(records[i]) : i \in 1..Len(records)}

\* C16: consolidating the chunk results in another order (here: reversed)
\* yields the same set of records with the same field values.
C16_OrderIndependent ==
    Consolidated => RecordSet(fn_out.records) = RecordSet(fn_out.reversed)

\* C17: consolidating the output of a consolidation as the only chunk of a
\* document, the chunk starting at page 1, returns a list equal to its input.
C17_ConsolidationIdempotent ==
    Consolidated => fn_out.again = fn_out.records

\* three chunk results of which two were merged into one record with a page
\* number beyond the first chunk, consolidated a second time
C17_Witness ==
    /\ fn_pc = "openai_consolidated"
    /\ fn_out.category = "EOB"
    /\ Len(fn_out.all_records) = 3
    /\ Len(fn_out.records) = 2
    /\ \E j \in 1..2 : /\ fn_out.records[j].Page_no.kind = "str"
                       /\ fn_out.records[j].Page_no.val > MAX_PAGES_PER_CHUNK
                       /\ fn_out.records[j].insurance_co # ""
    /\ fn_out.again = fn_out.records

(***************************************************************************)
(* Order of the records process_pdf returns (the list main.py's            *)
(* process_single_file counts and reports without reordering it)           *)
(***************************************************************************)
\* the record's page number is a page of the document
HasDocumentPage(record) ==
    /\ record.Original_page_no.kind = "int"
    /\ record.Original_page_no.val \in 1..total_pages

\* C18: the final record list of a document is in ascending order of the
\* corrected page number (stated here for the records whose page number is
\* a page of the document; the claim adds that equal pages keep their
\* arrival order).
C18_RecordsSortedByPage ==
    mpc = "done" =>
        \A i, j \in 1..Len(result.records) :
            (i < j /\ HasDocumentPage(result.records[i]) /\ HasDocumentPage(result.records[j]))
                => result.records[i].Original_page_no.val
                        <= result.records[j].Original_page_no.val

(***************************************************************************)
(* Truncated-JSON recovery:                                                *)
(*   MistralProcessor._try_recover_truncated_json (regular expressions),   *)
(*   OpenAIExtractor._try_recover_truncated_json (brace counting).         *)
(* A response text is a sequence of lexical tokens: the braces and         *)
(* brackets, the comma, a member with a scalar value ("a:1"; "id:1" when   *)
(* its key is one of 'Patient Name', 'patient_acct', 'Claim_ID',           *)
(* 'paid_amount'), and a key with its colon, its value following           *)
(* ("claims:", "data:", "k:").  No token but "{" and "}" holds a brace.    *)
(***************************************************************************)
MaxObjects == 3

ScalarMembers == {"a:1", "id:1"}
KeyTokens == {"claims:", "data:", "k:"}

\* objects a provider writes into the records array
FlatPlain == <<"{", "a:1", "}">>
FlatId == <<"{", "id:1", "}">>
IdWithNested == <<"{", "id:1", ",", "k:", "{", "a:1", "}", "}">>
NestedId == <<"{", "a:1", ",", "k:", "{", "id:1", "}", "}">>
DeepId == <<"{", "id:1", ",", "k:", "{", "id:1", ",", "k:", "{", "a:1", "}", "}", "}">>

ObjectShapes == {FlatPlain, FlatId, IdWithNested, NestedId, DeepId}

\* what follows the records array in the document: nothing, or a further
\* member holding an object
DocumentTails == {<<>>, <<",", "k:", "{", "id:1", "}">>}

RECURSIVE JoinObjects(_, _)
JoinObjects(objs, i) ==
    IF i > Len(objs) THEN <<>>
    ELSE IF i = Len(objs) THEN objs[i]
    ELSE objs[i] \o <<",">> \o JoinObjects(objs, i + 1)

\* the complete response: {"<key>": [obj, obj, ...] <tail>}
Document(key, objs, tail) ==
    <<"{", key, "[">> \o JoinObjects(objs, 1) \o <<"]">> \o tail \o <<"}">>

\* the response as it arrived, cut off after `cut` tokens
ResponseText(in) == SubSeq(Document(in.key, in.objs, in.tail), 1, in.cut)

\* index of the first token at or after i that is one of `tokens`, 0 if none
RECURSIVE FindFrom(_, _, _)
FindFrom(text, i, tokens) ==
    IF i > Len(text) \/ i < 1 THEN 0
    ELSE IF text[i] \in tokens THEN i
    ELSE FindFrom(text, i + 1, tokens)

NextBrace(text, i) == FindFrom(text, i, {"{", "}"})

(* json.loads on a candidate object *)
\* each Parse operator returns the index behind what it parsed, 0 on a
\* syntax error
RECURSIVE ParseObject(_, _), ParseMembers(_, _), ParseValue(_, _), ParseElements(_, _)
ParseValue(s, i) ==
    IF i > Len(s) THEN 0
    ELSE IF s[i] = "{" THEN ParseObject(s, i)
    ELSE IF s[i] = "["
         THEN IF i + 1 <= Len(s) /\ s[i + 1] = "]" THEN i + 2 ELSE ParseElements(s, i + 1)
    ELSE 0

ParseElements(s, i) ==
    LET j == ParseValue(s, i)
    IN  IF j = 0 \/ j > Len(s) THEN 0
        ELSE IF s[j] = "]" THEN j + 1
        ELSE IF s[j] = "," THEN ParseElements(s, j + 1)
        ELSE 0

ParseMembers(s, i) ==
    LET j == IF i > Len(s) THEN 0
             ELSE IF s[i] \in ScalarMembers THEN i + 1
             ELSE IF s[i] \in KeyTokens THEN ParseValue(s, i + 1)
             ELSE 0
    IN  IF j = 0 \/ j > Len(s) THEN 0
        ELSE IF s[j] = "}" THEN j + 1
        ELSE IF s[j] = "," THEN ParseMembers(s, j + 1)
        ELSE 0

ParseObject(s, i) ==
    IF i > Len(s) \/ s[i] # "{" THEN 0
    ELSE IF i + 1 <= Len(s) /\ s[i + 1] = "}" THEN i + 2
    ELSE ParseMembers(s, i + 1)

\* json.loads(obj_str) does not raise JSONDecodeError
JsonLoads(s) == ParseObject(s, 1) = Len(s) + 1

\* nesting depth of token i: the open braces and brackets before it
Depth(s, i) ==
    Cardinality({j \in 1..(i - 1) : s[j] \in {"{", "["}})
        - Cardinality({j \in 1..(i - 1) : s[j] \in {"}", "]"}})

\* the keys of the decoded dict
TopLevelKeys(s) ==
    {s[i] : i \in {j \in 1..Len(s) : Depth(s, j) = 1 /\ s[j] \in ScalarMembers \cup KeyTokens}}

\* the dict json.loads returns for text[first..last], with where it was read
Decoded(text, first, last) ==
    [first |-> first, last |-> last,
     keys |-> TopLevelKeys(SubSeq(text, first, last)),
     source |-> SubSeq(text, first, last)]

(* MistralProcessor._try_recover_truncated_json *)
\* claims_match = re.search(r'"claims"\s*:\s*\[', text): index of the bracket
ClaimsMatch(text) ==
    LET S == {i \in 1..(Len(text) - 1) : text[i] = "claims:" /\ text[i + 1] = "["}
    IN  IF S = {} THEN 0 ELSE (CHOOSE i \in S : \A j \in S : i <= j) + 1

\* the rest of pattern r'\{[^{}]*(?:\{[^{}]*\}[^{}]*)*\}' once the opening
\* brace and the brace-free run behind it are consumed: j is the next brace
RECURSIVE MatchGroups(_, _)
MatchGroups(text, j) ==
    IF j = 0 THEN 0
    ELSE IF text[j] = "}" THEN j
    ELSE LET k == NextBrace(text, j + 1)
         IN  IF k = 0 \/ text[k] # "}" THEN 0
             ELSE MatchGroups(text, NextBrace(text, k + 1))

\* last index of the match of the pattern starting at i, 0 if none starts there
MatchEnd(text, i) ==
    IF text[i] = "{" THEN MatchGroups(text, NextBrace(text, i + 1)) ELSE 0

\* if any(key in claim for key in ['Patient Name', 'patient_acct', 'Claim_ID', 'paid_amount'])
HasIdentityKey(claim) == "id:1" \in claim.keys

\* the body of the loop over re.finditer: the match decodes and passes the filter
KeepsClaim(text, first, last) ==
    /\ JsonLoads(SubSeq(text, first, last))
    /\ HasIdentityKey(Decoded(text, first, last))

\* for match in re.finditer(pattern, claims_section): leftmost matches, none
\* overlapping
RECURSIVE FindIter(_, _, _)
FindIter(text, pos, claims) ==
    IF pos > Len(text) THEN claims
    ELSE LET last == MatchEnd(text, pos)
         IN  IF last = 0 THEN FindIter(text, pos + 1, claims)
             ELSE FindIter(text, last + 1,
                    IF KeepsClaim(text, pos, last)
                    THEN Append(claims, Decoded(text, pos, last))
                    ELSE claims)

\* the function: None, or a dict with the recovered claims
MistralTryRecover(text) ==
    LET bracket == ClaimsMatch(text)
        claims == IF bracket = 0 THEN <<>> ELSE FindIter(text, bracket + 1, <<>>)
    IN  [found |-> claims # <<>>, records |-> claims]

(* OpenAIExtractor._try_recover_truncated_json *)
\* the loop over content[current_pos:]: brace_count and object_start (0 for -1)
RECURSIVE BraceScan(_, _, _, _, _)
BraceScan(text, i, brace_count, object_start, records) ==
    IF i > Len(text) THEN records
    ELSE IF text[i] = "{"
         THEN BraceScan(text, i + 1, brace_count + 1,
                        IF brace_count = 0 THEN i ELSE object_start, records)
    ELSE IF text[i] = "}"
         THEN IF brace_count - 1 = 0 /\ object_start # 0
              THEN IF JsonLoads(SubSeq(text, object_start, i))
                   THEN BraceScan(text, i + 1, 0, 0,
                                  Append(records, Decoded(text, object_start, i)))
                   ELSE BraceScan(text, i + 1, 0, object_start, records)
              ELSE BraceScan(text, i + 1, brace_count - 1, object_start, records)
    ELSE BraceScan(text, i + 1, brace_count, object_start, records)

\* the function: None, or a dict with the recovered records
OpenAITryRecover(text) ==
    LET data_start == FindFrom(text, 1, {"data:"})
        bracket_start == FindFrom(text, data_start, {"["})
        records == IF data_start = 0 \/ bracket_start = 0 THEN <<>>
                   ELSE BraceScan(text, bracket_start + 1, 0, 0, <<>>)
    IN  [found |-> records # <<>>, records |-> records]

MistralRecover ==
    /\ fn_pc = "recover_entry"
    /\ fn_out' = MistralTryRecover(ResponseText(fn_in))
    /\ fn_pc' = "mistral_recovered"
    /\ UNCHANGED <<compVars, total_pages, planVars, mistralVars, fn_in>>

OpenAIRecover ==
    /\ fn_pc = "recover_entry"
    /\ fn_out' = OpenAITryRecover(ResponseText(fn_in))
    /\ fn_pc' = "openai_recovered"
    /\ UNCHANGED <<compVars, total_pages, planVars, mistralVars, fn_in>>

\* a response is handed to recovery when json.loads raised on it: every
\* proper prefix of a document
InitRecover ==
    /\ total_pages = 1
    /\ api_key_set = TRUE
    /\ use_batch = FALSE
    /\ mpc = "idle"
    /\ MistralStart
    /\ PlanIdle
    /\ fn_pc = "recover_entry"
    /\ \E key \in {"claims:", "data:"}, tail \in DocumentTails,
          objs \in UNION {[1..n -> ObjectShapes] : n \in 0..MaxObjects} :
            \E cut \in 0..(Len(Document(key, objs, tail)) - 1) :
                fn_in = [key |-> key, objs |-> objs, tail |-> tail, cut |-> cut]
    /\ fn_out = <<>>
    /\ CompIdle

NextRecover ==
    \/ MistralRecover
    \/ OpenAIRecover

SpecRecover == InitRecover /\ [][NextRecover]_vars

Recovered == fn_pc \in {"mistral_recovered", "openai_recovered"}

\* the key of the records array in the answers of the implementation that ran
RecordsKey == IF fn_pc = "mistral_recovered" THEN "claims:" ELSE "data:"

\* index of the bracket that opens the records array, 0 if the text has none
RecordsArrayStart(text) ==
    LET S == {i \in 1..(Len(text) - 1) : text[i] = RecordsKey /\ text[i + 1] = "["}
    IN  IF S = {} THEN 0 ELSE (CHOOSE i \in S : \A j \in S : i <= j) + 1

\* index of the brace that closes the object opened at i, 0 if it is cut off
MatchingClose(text, i) ==
    LET S == {j \in (i + 1)..Len(text) : text[j] = "}" /\ Depth(text, j) = Depth(text, i) + 1}
    IN  IF S = {} THEN 0 ELSE CHOOSE j \in S : \A k \in S : j <= k

\* the complete top-level elements of the array opened at `bracket`, as
\* <<first, last>> index pairs in text order, and the index where the scan of
\* the array stopped (its closing bracket, the end of text, or a cut element)
RECURSIVE ElementsFrom(_, _, _)
ElementsFrom(text, i, acc) ==
    IF i > Len(text) THEN [spans |-> acc, stop |-> i]
    ELSE IF text[i] = "," THEN ElementsFrom(text, i + 1, acc)
    ELSE IF text[i] = "{" /\ MatchingClose(text, i) # 0
         THEN ElementsFrom(text, MatchingClose(text, i) + 1, Append(acc, <<i, MatchingClose(text, i)>>))
    ELSE [spans |-> acc, stop |-> i]

ArrayElements(text) ==
    IF RecordsArrayStart(text) = 0 THEN [spans |-> <<>>, stop |-> 0]
    ELSE ElementsFrom(text, RecordsArrayStart(text) + 1, <<>>)

\* the text is cut off inside an element of the records array
CutInsideElement(text) ==
    LET stop == ArrayElements(text).stop
    IN  stop >= 1 /\ stop <= Len(text) /\ text[stop] = "{"

RecoveredSpans == [k \in 1..Len(fn_out.records) |-> <<fn_out.records[k].first, fn_out.records[k].last>>]

\* C19: for an input cut off inside the n-th object of the records array,
\* recovery returns exactly the n - 1 complete objects before the cut, in
\* order, and nothing of the partial n-th object (two records for
\* {"claims": [{"a":1},{"a":2},{"a":3 ).
C19_RecoversCompleteObjects ==
    (Recovered /\ CutInsideElement(ResponseText(fn_in)))
        => RecoveredSpans = ArrayElements(ResponseText(fn_in)).spans

\* C20: every record recovery returns is a complete top-level element of the
\* records array of the input, decoded as it stands there: no fragment, no
\* object nested inside a record, no object from outside the array.
C20_OnlyTopLevelElements ==
    Recovered =>
        \A k \in 1..Len(fn_out.records) :
            LET r == fn_out.records[k]
                text == ResponseText(fn_in)
            IN  /\ \E e \in 1..Len(ArrayElements(text).spans) :
                      ArrayElements(text).spans[e] = <<r.first, r.last>>
                /\ r.source = SubSeq(text, r.first, r.last)
                /\ r.keys = TopLevelKeys(r.source)

(***************************************************************************)
(* Parsing a provider answer:                                              *)
(*   MistralProcessor._parse_json_response followed by _extract_records,   *)
(*   OpenAIExtractor._parse_response.                                      *)
(* The answer is a document of the recovery section, whole or cut off,     *)
(* with or without a markdown code fence around it.                        *)
(***************************************************************************)
\* the three backquotes of a markdown code fence, with the language tag
Fence == "fence"
Fences == {"none", "open", "both"}

\* the message content the provider returned
AnswerContent(in, fence) ==
    (IF fence = "none" THEN <<>> ELSE <<Fence>>)
        \o ResponseText(in)
        \o (IF fence = "both" THEN <<Fence>> ELSE <<>>)

\* if content.startswith(<fence>): both re.sub calls
StripFences(content) ==
    IF content # <<>> /\ Head(content) = Fence
    THEN LET rest == Tail(content)
         IN  IF rest # <<>> /\ rest[Len(rest)] = Fence
             THEN SubSeq(rest, 1, Len(rest) - 1)
             ELSE rest
    ELSE content

\* str(e) of the json.JSONDecodeError raised on `content`
DecodeError(content) == [type |-> "JSONDecodeError", doc |-> content]

\* no decode error was raised
NoDecodeError == [type |-> "none", doc |-> <<>>]

\* the list under `key` of the dict decoded from content, <<>> when the dict
\* has no such key (dict.get(key, []))
ListUnder(content, key) ==
    LET S == {i \in 1..(Len(content) - 1) :
                content[i] = key /\ content[i + 1] = "[" /\ Depth(content, i) = 1}
    IN  IF S = {} THEN <<>>
        ELSE LET bracket == (CHOOSE i \in S : \A j \in S : i <= j) + 1
                 spans == ElementsFrom(content, bracket + 1, <<>>).spans
             IN  [k \in 1..Len(spans) |-> Decoded(content, spans[k][1], spans[k][2])]

\* the except branch that drops the error
ParseFailureSwallowed(content) ==
    [keys |-> {"raw_response"}, claims |-> <<>>, parse_error |-> NoDecodeError]

\* return {'raw_response': content, 'parse_error': str(e)}
ParseFailure(content) ==
    [keys |-> {"raw_response", "parse_error"}, claims |-> <<>>,
     parse_error |-> DecodeError(content)]

\* MistralProcessor._parse_json_response: the dict it returns
ParseJsonResponse(raw) ==
    LET content == StripFences(raw)
        recovered == MistralTryRecover(content)
    IN  IF JsonLoads(content)
        THEN [keys |-> TopLevelKeys(content),
              claims |-> ListUnder(content, "claims:"),
              parse_error |-> NoDecodeError]
        ELSE IF recovered.found
        THEN [keys |-> {"document_summary", "claims:"},
              claims |-> recovered.records,
              parse_error |-> NoDecodeError]
        ELSE ParseFailure(content)

\* MistralProcessor._extract_records: the documents of this section carry
\* neither 'patient_info' nor 'additional_data' nor 'line_items'
ExtractRecords(data, category) ==
    IF category = "EOB" THEN data.claims ELSE <<>>

\* OpenAIExtractor._parse_response: (extracted_data, records)
ParseResponse(content, doc_category) ==
    LET recovered == OpenAITryRecover(content)
        extracted_data ==
            IF JsonLoads(content)
            THEN [keys |-> TopLevelKeys(content),
                  data |-> ListUnder(content, "data:"),
                  error |-> NoDecodeError]
            ELSE IF recovered.found
            THEN [keys |-> {"data:", "recovered", "total_extracted"},
                  data |-> recovered.records,
                  error |-> NoDecodeError]
            ELSE [keys |-> {"data:", "error"}, data |-> <<>>,
                  error |-> DecodeError(content)]
    IN  [extracted_data |-> extracted_data,
         records |-> IF "data:" \in extracted_data.keys
                     THEN extracted_data.data ELSE <<>>]

MistralParse ==
    /\ fn_pc = "parse_entry"
    /\ \E fence \in Fences, category \in DocumentCategories :
          LET data == ParseJsonResponse(AnswerContent(fn_in, fence))
          IN  fn_out' = [content |-> AnswerContent(fn_in, fence),
                         stripped |-> StripFences(AnswerContent(fn_in, fence)),
                         category |-> category,
                         error |-> data.parse_error,
                         keys |-> data.keys,
                         records |-> ExtractRecords(data, category),
                         recovered |-> MistralTryRecover(StripFences(AnswerContent(fn_in, fence))).found,
                         raised |-> FALSE]
    /\ fn_pc' = "mistral_parsed"
    /\ UNCHANGED <<compVars, total_pages, planVars, mistralVars, fn_in>>

OpenAIParse ==
    /\ fn_pc = "parse_entry"
    /\ \E fence \in Fences, category \in DocumentCategories :
          LET parsed == ParseResponse(AnswerContent(fn_in, fence), category)
          IN  fn_out' = [content |-> AnswerContent(fn_in, fence),
                         stripped |-> AnswerContent(fn_in, fence),
                         category |-> category,
                         error |-> parsed.extracted_data.error,
                         keys |-> parsed.extracted_data.keys,
                         records |-> parsed.records,
                         recovered |-> OpenAITryRecover(AnswerContent(fn_in, fence)).found,
                         raised |-> FALSE]
    /\ fn_pc' = "openai_parsed"
    /\ UNCHANGED <<compVars, total_pages, planVars, mistralVars, fn_in>>

\* the answers: every document of up to MaxObjects - 1 records, whole or cut
InitParse ==
    /\ total_pages = 1
    /\ api_key_set = TRUE
    /\ use_batch = FALSE
    /\ mpc = "idle"
    /\ MistralStart
    /\ PlanIdle
    /\ fn_pc = "parse_entry"
    /\ \E key \in {"claims:", "data:"}, tail \in DocumentTails,
          objs \in UNION {[1..n -> ObjectShapes] : n \in 0..(MaxObjects - 1)} :
            \E cut \in 0..Len(Document(key, objs, tail)) :
                fn_in = [key |-> key, objs |-> objs, tail |-> tail, cut |-> cut]
    /\ fn_out = <<>>
    /\ CompIdle

NextParse ==
    \/ MistralParse
    \/ OpenAIParse

SpecParse == InitParse /\ [][NextParse]_vars

Parsed == fn_pc \in {"mistral_parsed", "openai_parsed"}

\* strict decoding of the content failed and recovery found nothing
DecodeAndRecoveryFailed == Parsed /\ ~JsonLoads(fn_out.stripped) /\ ~fn_out.recovered

\* C21: when strict JSON decoding fails and truncated-JSON recovery finds
\* nothing, parsing returns an empty record set together with the decode
\* error of the content it tried to decode, kept in the returned structure,
\* and parsing does not raise.
C21_ParseFailureKeepsError ==
    DecodeAndRecoveryFailed =>
        /\ fn_out.records = <<>>
        /\ fn_out.error = DecodeError(fn_out.stripped)
        /\ fn_out.keys \cap {"parse_error", "error"} # {}
        /\ ~fn_out.raised

C21_Witness ==
    /\ DecodeAndRecoveryFailed
    /\ fn_pc = "mistral_parsed"
    /\ fn_in.key = "claims:"
    /\ Len(fn_in.objs) = 2
    /\ fn_out.content # fn_out.stripped
    /\ fn_out.error = DecodeError(fn_out.stripped)

(***************************************************************************)
(* Chunk failures during extraction (process_pdf)                          *)
(***************************************************************************)
\* the extraction of a multi-chunk document has ended: with a result, or
\* with the exception of a synchronous chunk call
ExtractionEnded ==
    /\ Finished
    /\ num_chunks > 1
    /\ (mpc = "done" \/ error = "SyncError")

BatchEnded == mpc = "done" /\ result.mode = "batch"

\* the chunk's answer was used: a result line with choices in batch mode, a
\* synchronous call that returned in the sequential loop
ChunkSucceeded(c) ==
    IF BatchEnded THEN Usable(c)
    ELSE \E i \in 1..Len(sync_log) : sync_log[i].chunk_idx = c /\ sync_log[i].out.ok

\* the chunk has no usable answer: no line or a line without choices in
\* batch mode, a synchronous call that raised in the sequential loop
ChunkFailed(c) ==
    IF BatchEnded THEN ~Usable(c)
    ELSE \E i \in 1..Len(sync_log) : sync_log[i].chunk_idx = c /\ ~sync_log[i].out.ok

\* C22: during extraction of a multi-chunk document, if every chunk fails
\* the document ends in the failed state; if at least one chunk succeeds and
\* at least one fails, the document still ends successfully and the failed
\* chunks contribute no record to its result.
C22_ChunkFailuresHandled ==
    ExtractionEnded =>
        /\ (\A c \in ChunkIndexes : ChunkFailed(c)) => mpc = "failed"
        /\ ((\E c \in ChunkIndexes : ChunkSucceeded(c))
             /\ (\E c \in ChunkIndexes : ChunkFailed(c)))
                => /\ mpc = "done"
                   /\ \A k \in 1..Len(result.records) :
                         ~ChunkFailed(result.records[k].chunk)

(***************************************************************************)
(* OpenAIExtractor._extract_with_chunking                                  *)
(* Its locals all_records, total_input_tokens and total_output_tokens are  *)
(* the variables of the same names; chunk_info holds `chunks`, chunk_idx   *)
(* counts the chunks the loop is done with, sync_log keeps the outcome of  *)
(* every iteration and fn_in the arguments of the call.                    *)
(***************************************************************************)
\* _split_into_chunks for a text with total_pages pages of equal length and
\* no paragraph or sentence end to break at: the chunk dicts without 'text'
OpenAIChunks(total) ==
    [k \in 1..NumChunks(total, MAX_PAGES_PER_CHUNK) |->
        LET first == (k - 1) * MAX_PAGES_PER_CHUNK + 1
            pages == Min(MAX_PAGES_PER_CHUNK, total - first + 1)
        IN  [chunk_idx |-> k - 1, pages |-> pages,
             start_page |-> first, end_page |-> first + pages - 1]]

\* records the model answers for a chunk: none, one, or two
ExtractAnswers ==
    { <<>>,
      <<[OpenAIRecord("P", "x", PageStr(2)) EXCEPT !.service_date = "d"]>>,
      <<[OpenAIRecord("P", "", PageInt(1)) EXCEPT !.service_date = "d"],
        OpenAIRecord("Q", "y", PageAbsent)>> }

\* one iteration of the loop: an exception anywhere in the try block
\* (_call_openai after its retries, a response without content or usage), or
\* the parsed records and response.usage
ExtractOutcomes ==
    {[ok |-> FALSE, records |-> <<>>, prompt_tokens |-> 0, completion_tokens |-> 0]}
    \cup {[ok |-> TRUE, records |-> r, prompt_tokens |-> 5, completion_tokens |-> 2] :
            r \in ExtractAnswers}
    \cup {[ok |-> TRUE, records |-> <<>>, prompt_tokens |-> 7, completion_tokens |-> 1]}

\* "Add page offset to records"
OffsetRecords(records, chunk) ==
    [k \in 1..Len(records) |-> OffsetPageNo(records[k], chunk.start_page)]

\* _validate_extraction(...)['passed'] for records without a confidence
\* score (100 is assumed): at least 80 percent of the records hold every
\* required field; the records of the model carry the EOB fields only
RequiredFieldsPresent(record, doc_category) ==
    doc_category = "EOB" /\ record.patient_acct # "" /\ record.service_date # ""

ValidationPassed(records, doc_category) ==
    /\ records # <<>>
    /\ Cardinality({k \in 1..Len(records) : RequiredFieldsPresent(records[k], doc_category)}) * 100
          >= 80 * Len(records)

\* the ExtractionResult returned after the loop
ExtractionResultOf(records, input_tokens, output_tokens, doc_category, total_chunks) ==
    LET consolidated_records == ConsolidateRecords(records, doc_category)
    IN  [mode |-> "openai_chunked",
         data |-> [data |-> consolidated_records,
                   chunked_processing |-> TRUE,
                   total_chunks |-> total_chunks],
         records |-> consolidated_records,
         input_tokens |-> input_tokens,
         output_tokens |-> output_tokens,
         total_tokens |-> input_tokens + output_tokens,
         validation_passed |-> ValidationPassed(consolidated_records, doc_category)]

\* for i, chunk in enumerate(chunks, 1): try ... except Exception: continue
ExtractChunk ==
    /\ mpc = "extract_loop"
    /\ chunk_idx < Len(chunk_info)
    /\ \E out \in ExtractOutcomes :
          /\ sync_log' = Append(sync_log, [chunk_idx |-> chunk_idx, out |-> out])
          /\ IF out.ok
             THEN /\ all_records' =
                        all_records \o OffsetRecords(out.records, chunk_info[chunk_idx + 1])
                  /\ total_input_tokens' = AddTokens(total_input_tokens, out.prompt_tokens)
                  /\ total_output_tokens' = AddTokens(total_output_tokens, out.completion_tokens)
             ELSE UNCHANGED <<all_records, total_input_tokens, total_output_tokens>>
    /\ chunk_idx' = chunk_idx + 1
    /\ UNCHANGED <<compVars, fnVars, cfgVars, planVars, batchVars, mpc, batch_error, result, error>>

\* "Consolidate and deduplicate records" to the return
ExtractFinish ==
    /\ mpc = "extract_loop"
    /\ chunk_idx = Len(chunk_info)
    /\ result' = ExtractionResultOf(all_records, total_input_tokens, total_output_tokens,
                                    fn_in.doc_category, Len(chunk_info))
    /\ mpc' = "done"
    /\ UNCHANGED <<compVars, fnVars, cfgVars, planVars, batchVars, accVars, chunk_idx, batch_error, error>>

\* extract_data routed a document of more than MAX_PAGES_FOR_SINGLE_CALL
\* (30) pages to _extract_with_chunking
InitExtract ==
    /\ total_pages \in {n \in DocumentSizes : n > MAX_PAGES_PER_CHUNK}
    /\ api_key_set = TRUE
    /\ use_batch = FALSE
    /\ mpc = "extract_loop"
    /\ chunk_idx = 0
    /\ batch_requests = <<>>
    /\ chunk_info = OpenAIChunks(total_pages)
    /\ submitted = <<>>
    /\ job_id = NoJob
    /\ elapsed = 0
    /\ last_status = "none"
    /\ batch_results = <<>>
    /\ batch_error = NoError
    /\ sync_log = <<>>
    /\ all_records = <<>>
    /\ total_input_tokens = 0
    /\ total_output_tokens = 0
    /\ result = NoResult
    /\ error = NoError
    /\ PlanIdle
    /\ fn_pc = "idle"
    /\ fn_in \in [doc_category : DocumentCategories]
    /\ fn_out = <<>>
    /\ CompIdle

NextExtract ==
    \/ ExtractChunk
    \/ ExtractFinish

SpecExtract == InitExtract /\ [][NextExtract]_vars

\* the run in which every chunk that failed had answered with no records
\* instead: what its loop accumulates and what it returns
RECURSIVE RecordsOfLog(_, _)
RecordsOfLog(log, i) ==
    IF i > Len(log) THEN <<>>
    ELSE (IF log[i].out.ok
          THEN OffsetRecords(log[i].out.records, chunk_info[log[i].chunk_idx + 1])
          ELSE <<>>) \o RecordsOfLog(log, i + 1)

ResultWithoutFailures ==
    ExtractionResultOf(RecordsOfLog(sync_log, 1), 0, 0, fn_in.doc_category, Len(chunk_info))

PartiallyFailed ==
    /\ \E i \in 1..Len(sync_log) : sync_log[i].out.ok
    /\ \E i \in 1..Len(sync_log) : ~sync_log[i].out.ok

\* C23: a partially-failed document (some chunk failed, some succeeded)
\* yields a success status, and the metadata of the returned result records
\* the partial failure: it is not the metadata of the run in which the
\* failed chunks answered with an empty record list.
C23_PartialFailureInMetadata ==
    (mpc = "done" /\ PartiallyFailed) =>
        /\ result.mode = "openai_chunked"
        /\ result.data # ResultWithoutFailures.data

(***************************************************************************)
(* EOBProcessor.process_file (document_ai_processor.py), with              *)
(* PDFSplitter.split_pdf, _process_parallel, _consolidate_raw_data and     *)
(* _cleanup_temp_files.  Several calls run at a time (the server starts    *)
(* one per request as a background task); all of them use the relative     *)
(* directory temp_splits.                                                  *)
(***************************************************************************)
MAX_PAGES_PER_SPLIT == 15
MaxParts == 2

\* page counts at both ends of every part count 1..MaxParts
EobDocumentSizes ==
    UNION {{k * MAX_PAGES_PER_SPLIT + 1, (k + 1) * MAX_PAGES_PER_SPLIT} : k \in 0..(MaxParts - 1)}

\* Path(input_path).stem of the documents
BaseNames == {"a", "b"}

RunIds == {1, 2}

\* everything but the variables of process_file
eobOthers == <<total_pages, planVars, mistralVars, fnVars, call, cost, proc, clean>>

\* temp_dir / f"{base_name}_part{chunk_num}.pdf"
SplitFilename(base_name, chunk_num) == <<base_name, "_part", chunk_num>>

\* the pages first..last of the document of run d, as written to a file
PartContent(d, first, last) == [doc |-> d, first |-> first, last |-> last]

\* open(name, 'wb') and write: the file is created or overwritten
WriteFile(files, name, content) ==
    [x \in (DOMAIN files) \cup {name} |-> IF x = name THEN content ELSE files[x]]

\* extract_raw_data of the Document AI answer for a file of this content:
\* 'text', 'pages', and the 'page_number' of every page_details entry (the
\* page of the document it was taken from is kept beside it)
ExtractRawData(content) ==
    [text |-> <<content>>,
     pages |-> content.last - content.first + 1,
     page_details |->
        [i \in 1..(content.last - content.first + 1) |->
            [page_number |-> i, doc |-> content.doc, doc_page |-> content.first + i - 1]]]

\* the loop of _consolidate_raw_data over all_raw_data[i..]
RECURSIVE ConsolidateParts(_, _, _, _)
ConsolidateParts(all_raw_data, i, page_offset, consolidated) ==
    IF i > Len(all_raw_data) THEN consolidated
    ELSE LET part_data == all_raw_data[i]
         IN  ConsolidateParts(all_raw_data, i + 1, page_offset + part_data.pages,
                [text |-> consolidated.text \o part_data.text,
                 pages |-> consolidated.pages + part_data.pages,
                 page_details |-> consolidated.page_details \o
                    [k \in 1..Len(part_data.page_details) |->
                        [part_data.page_details[k] EXCEPT
                            !.page_number = @ + page_offset]]])

\* _consolidate_raw_data without the metadata entry
ConsolidateRawData(all_raw_data) ==
    IF Len(all_raw_data) = 1 THEN all_raw_data[1]
    ELSE ConsolidateParts(all_raw_data, 1, 0,
                          [text |-> <<>>, pages |-> 0, page_details |-> <<>>])

NoRawData == [text |-> <<>>, pages |-> 0, page_details |-> <<>>]

\* a call of process_file that has not started
NewRun(base_name, pages) ==
    [pc |-> "entry", base_name |-> base_name, total_pages |-> pages,
     chunk_num |-> 1, split_files |-> <<>>, pending |-> {},
     all_raw_data |-> <<>>, consolidated |-> NoRawData, status |-> "none"]

\* the except branch of process_file: {'status': 'error', ...}
ReturnError(run) == [run EXCEPT !.pc = "returned", !.status = "error"]

\* split_pdf up to its loop: a document within the limit is returned as it
\* is, otherwise temp_splits is created (mkdir(exist_ok=True))
EobSplitStart(d) ==
    /\ runs[d].pc = "entry"
    /\ IF runs[d].total_pages <= MAX_PAGES_PER_SPLIT
       THEN /\ runs' = [runs EXCEPT ![d].pc = "single",
                            ![d].split_files =
                                <<[path |-> <<runs[d].base_name, ".pdf", 0>>,
                                   start_page |-> 1, end_page |-> runs[d].total_pages]>>]
            /\ UNCHANGED temp_splits
       ELSE /\ runs' = [runs EXCEPT ![d].pc = "split"]
            /\ temp_splits' = [temp_splits EXCEPT !.exists = TRUE]
    /\ UNCHANGED eobOthers

\* one iteration of split_pdf's loop: the part file is written; after the
\* last one _process_parallel submits every part to the executor.  Writing
\* raises when the directory is gone.
EobSplitWrite(d) ==
    /\ runs[d].pc = "split"
    /\ LET run == runs[d]
           first == (run.chunk_num - 1) * MAX_PAGES_PER_SPLIT
           last == SplitEndPage(first, MAX_PAGES_PER_SPLIT, run.total_pages)
           name == SplitFilename(run.base_name, run.chunk_num)
           files == [path |-> name, start_page |-> first + 1, end_page |-> last]
       IN  IF ~temp_splits.exists
           THEN /\ runs' = [runs EXCEPT ![d] = ReturnError(run)]
                /\ UNCHANGED temp_splits
           ELSE /\ temp_splits' =
                      [temp_splits EXCEPT
                          !.files = WriteFile(@, name, PartContent(d, first + 1, last))]
                /\ runs' = [runs EXCEPT
                      ![d].split_files = Append(@, files),
                      ![d].chunk_num = @ + 1,
                      ![d].pc = IF last < run.total_pages THEN "split" ELSE "parallel",
                      ![d].pending = IF last < run.total_pages THEN {}
                                     ELSE 1..run.chunk_num]
    /\ UNCHANGED eobOthers

\* len(split_files) == 1: process_document on the document itself; an
\* exception ends process_file in its except branch
EobProcessSingle(d) ==
    /\ runs[d].pc = "single"
    /\ \E ok \in BOOLEAN :
          runs' = [runs EXCEPT ![d] =
                      IF ok
                      THEN [runs[d] EXCEPT
                              !.pc = "consolidate",
                              !.all_raw_data =
                                 <<ExtractRawData(PartContent(d, 1, runs[d].total_pages))>>]
                      ELSE ReturnError(runs[d])]
    /\ UNCHANGED <<temp_splits, eobOthers>>

\* a future of _process_parallel completes and is collected by as_completed:
\* _process_part read the part file as it is in temp_splits now; a missing
\* file or a provider error is logged and the part is left out
EobPartCompletes(d, part_num) ==
    /\ runs[d].pc = "parallel"
    /\ part_num \in runs[d].pending
    /\ LET path == runs[d].split_files[part_num].path
       IN  \E ok \in BOOLEAN :
              runs' = [runs EXCEPT
                  ![d].pending = @ \ {part_num},
                  ![d].all_raw_data =
                      IF ok /\ path \in DOMAIN temp_splits.files
                      THEN Append(@, ExtractRawData(temp_splits.files[path]))
                      ELSE @]
    /\ UNCHANGED <<temp_splits, eobOthers>>

\* _consolidate_raw_data, the raw-data file and _move_processed_file; an
\* exception of the file operations ends process_file in its except branch
EobConsolidateAndSave(d) ==
    /\ \/ runs[d].pc = "consolidate"
       \/ runs[d].pc = "parallel" /\ runs[d].pending = {}
    /\ \E saved \in BOOLEAN :
          LET consolidated ==
                [runs[d] EXCEPT !.consolidated = ConsolidateRawData(runs[d].all_raw_data)]
          IN  runs' = [runs EXCEPT ![d] =
                          IF saved
                          THEN [consolidated EXCEPT !.pc = "cleanup"]
                          ELSE ReturnError(consolidated)]
    /\ UNCHANGED <<temp_splits, eobOthers>>

\* _cleanup_temp_files and the return of {'status': 'success', ...}:
\* shutil.rmtree removes the directory with every file in it, or fails three
\* times (a file is still open) and the failure is ignored
EobCleanup(d) ==
    /\ runs[d].pc = "cleanup"
    /\ \E removed \in BOOLEAN :
          temp_splits' = IF temp_splits.exists /\ removed
                         THEN [exists |-> FALSE, files |-> <<>>]
                         ELSE temp_splits
    /\ runs' = [runs EXCEPT ![d].pc = "returned", ![d].status = "success"]
    /\ UNCHANGED eobOthers

\* two documents, of the same or of different base names
InitEob ==
    /\ total_pages = 1
    /\ api_key_set = TRUE
    /\ use_batch = FALSE
    /\ mpc = "idle"
    /\ MistralStart
    /\ PlanIdle
    /\ FnIdle
    /\ CallIdle
    /\ CostIdle
    /\ ProcIdle
    /\ CleanIdle
    /\ temp_splits = [exists |-> FALSE, files |-> <<>>]
    /\ \E base_name \in BaseNames, p1, p2 \in EobDocumentSizes :
          runs = <<NewRun("a", p1), NewRun(base_name, p2)>>

NextEob ==
    \E d \in RunIds :
        \/ EobSplitStart(d)
        \/ EobSplitWrite(d)
        \/ EobProcessSingle(d)
        \/ \E part_num \in 1..(MaxParts + 1) : EobPartCompletes(d, part_num)
        \/ EobConsolidateAndSave(d)
        \/ EobCleanup(d)

SpecEob == InitEob /\ [][NextEob]_vars

\* the part files in temp_splits that run d wrote
PartFilesOf(d) ==
    {name \in DOMAIN temp_splits.files : temp_splits.files[name].doc = d}

\* C24: every temporary chunk sub-document created while processing a
\* document is deleted by the time processing of that document returns, on
\* the success path and on every failure path: no part file written by a
\* call of process_file is left once the call has returned.
C24_NoChunkFileOutlivesRun ==
    \A d \in RunIds : runs[d].pc = "returned" => PartFilesOf(d) = {}

\* the part files the extraction of run d still needs: those of its parts
\* that are submitted and not yet completed
NeededFiles(d) ==
    {runs[d].split_files[n].path : n \in runs[d].pending}

\* C25: for any interleaving of two documents processed at the same time,
\* each document's chunk sub-documents are read, written and deleted only
\* by that document's own run: a part file a run still needs is there with
\* the pages that run wrote, and every part a run has read holds its own
\* document's pages.
C25_RunsShareNoChunkFiles ==
    \A d \in RunIds :
        /\ \A name \in NeededFiles(d) :
              /\ name \in DOMAIN temp_splits.files
              /\ temp_splits.files[name].doc = d
        /\ \A i \in 1..Len(runs[d].all_raw_data) :
              \A k \in 1..Len(runs[d].all_raw_data[i].page_details) :
                  runs[d].all_raw_data[i].page_details[k].doc = d

\* the page number each page got: (document, page of the document, number)
PageAssignment(consolidated) ==
    {<<consolidated.page_details[k].doc, consolidated.page_details[k].doc_page,
       consolidated.page_details[k].page_number>> :
        k \in 1..Len(consolidated.page_details)}

\* the consolidated output had the futures completed in the order p
ConsolidatedInOrder(all_raw_data, p) ==
    ConsolidateRawData([i \in 1..Len(all_raw_data) |-> all_raw_data[p[i]]])

\* C26: in parallel synchronous dispatch the consolidated output of a
\* document is the same for every order in which the chunk workers
\* complete: the concatenated text and the page number assigned to each
\* page are those of any other completion order of the same parts.
C26_CompletionOrderIrrelevant ==
    \A d \in RunIds :
        runs[d].pc \in {"cleanup", "returned"} =>
            \A p \in Permutations(1..Len(runs[d].all_raw_data)) :
                LET other == ConsolidatedInOrder(runs[d].all_raw_data, p)
                IN  /\ other.text = runs[d].consolidated.text
                    /\ PageAssignment(other) = PageAssignment(runs[d].consolidated)

(***************************************************************************)
(* The synchronous provider calls with their retry loops:                  *)
(*   MistralProcessor._call_mistral_api (requests.post, retries = 3),      *)
(*   OpenAIExtractor._call_openai (client call, max_retries = 3).          *)
(***************************************************************************)
max_retries == 3

\* None of the source
None == "None"

\* what one attempt meets: an answer with status 200, a 429, a 5xx, another
\* status (400, 401, ...), a timeout, a connection error
AttemptOutcomes == {"ok", "rate_limit", "http_5xx", "http_4xx", "timeout", "connection_error"}

TransientFailures == {"rate_limit", "http_5xx", "timeout", "connection_error"}

callOthers == <<total_pages, planVars, mistralVars, fnVars, eobVars, cost, proc, clean>>

\* a call that has made no attempt yet; sleeps[i] is the time slept after
\* attempt i (0: none); last_error is the variable of _call_mistral_api,
\* raised the cause carried by the exception that leaves the call
NewCall(impl) ==
    [pc |-> "loop", impl |-> impl, attempt |-> 0, attempts |-> <<>>, sleeps |-> <<>>,
     last_error |-> None, raised |-> None]

\* last_error after an attempt of _call_mistral_api: the two except clauses
\* set it, the 429 branch does not
MistralLastError(last_error, outcome) ==
    IF outcome \in {"timeout", "connection_error"} THEN outcome ELSE last_error

\* the else branch of the status test: raise Exception(...) inside the try,
\* which none of the except clauses (Timeout, RequestException) catches
MistralStatusRaises(outcome) == outcome \in {"http_5xx", "http_4xx"}

\* time.sleep of the Mistral loop after a failed attempt (0-based attempt)
MistralSleep(outcome, attempt) ==
    IF outcome = "rate_limit" THEN 30 * (attempt + 1) ELSE 10

\* time.sleep(2 ** attempt) of the OpenAI loop, not after the last attempt
OpenAISleep(attempt) ==
    IF attempt = max_retries - 1 THEN 0 ELSE 2 ^ attempt

\* one iteration of `for attempt in range(retries)` of _call_mistral_api
MistralAttempt ==
    /\ call.pc = "loop"
    /\ call.impl = "mistral"
    /\ call.attempt < max_retries
    /\ \E outcome \in AttemptOutcomes :
          call' = [call EXCEPT
              !.attempts = Append(@, outcome),
              !.attempt = @ + 1,
              !.sleeps = Append(@, IF outcome = "ok" \/ MistralStatusRaises(outcome)
                                   THEN 0 ELSE MistralSleep(outcome, call.attempt)),
              !.last_error = MistralLastError(@, outcome),
              !.raised = IF MistralStatusRaises(outcome) THEN outcome ELSE @,
              !.pc = IF outcome = "ok" THEN "returned"
                     ELSE IF MistralStatusRaises(outcome) THEN "raised"
                     ELSE "loop"]
    /\ UNCHANGED callOthers

\* raise Exception(f"Failed after {retries} attempts: {last_error}")
MistralExhausted ==
    /\ call.pc = "loop"
    /\ call.impl = "mistral"
    /\ call.attempt = max_retries
    /\ call' = [call EXCEPT !.pc = "raised", !.raised = call.last_error]
    /\ UNCHANGED callOthers

\* one iteration of `for attempt in range(max_retries)` of _call_openai:
\* every exception of the client is caught, the last attempt's is re-raised
OpenAIAttempt ==
    /\ call.pc = "loop"
    /\ call.impl = "openai"
    /\ call.attempt < max_retries
    /\ \E outcome \in AttemptOutcomes :
          call' = [call EXCEPT
              !.attempts = Append(@, outcome),
              !.attempt = @ + 1,
              !.sleeps = Append(@, IF outcome = "ok" THEN 0 ELSE OpenAISleep(call.attempt)),
              !.raised = IF outcome # "ok" /\ call.attempt = max_retries - 1
                         THEN outcome ELSE @,
              !.pc = IF outcome = "ok" THEN "returned"
                     ELSE IF call.attempt = max_retries - 1 THEN "raised"
                     ELSE "loop"]
    /\ UNCHANGED callOthers

InitCall ==
    /\ total_pages = 1
    /\ api_key_set = TRUE
    /\ use_batch = FALSE
    /\ mpc = "idle"
    /\ MistralStart
    /\ PlanIdle
    /\ FnIdle
    /\ EobIdle
    /\ CostIdle
    /\ ProcIdle
    /\ CleanIdle
    /\ call \in {NewCall("mistral"), NewCall("openai")}

NextCall ==
    \/ MistralAttempt
    \/ MistralExhausted
    \/ OpenAIAttempt

\* the loops do not stall: an attempt ends (request timeout) and a sleep ends
SpecCall ==
    InitCall /\ [][NextCall]_vars
        /\ WF_vars(MistralAttempt) /\ WF_vars(MistralExhausted) /\ WF_vars(OpenAIAttempt)

CallEnded == call.pc \in {"returned", "raised"}

\* C27: every synchronous provider call retries transient failures (timeout,
\* connection error, 429, 5xx) and makes at most 3 attempts in total with a
\* delay before each retry; it returns the first successful response and
\* raises only after the attempts are exhausted, so the call always ends.
C27_RetriesTransientFailures ==
    /\ [](/\ Len(call.attempts) <= 3
          /\ \A i \in 1..(Len(call.attempts) - 1) :
                call.attempts[i] # "ok" /\ call.sleeps[i] > 0
          /\ call.pc = "returned" => call.attempts[Len(call.attempts)] = "ok"
          /\ (call.pc = "raised"
                /\ \A i \in 1..Len(call.attempts) : call.attempts[i] \in TransientFailures)
                    => Len(call.attempts) = 3)
    /\ <>CallEnded

(***************************************************************************)
(* CostTracker: fetch_docai_cost_config, fetch_model_pricing and           *)
(* calculate_total_cost.  Money is counted in nano-dollars (1e-9 $), so    *)
(* that the products of the source are integers; round(x, 4) rounds to a   *)
(* multiple of 100000 nano-dollars.                                        *)
(***************************************************************************)
docai_cost_per_page == 15000000
openai_input_cost_per_1k == 150000
openai_output_cost_per_1k == 600000
mistral_input_cost_per_1k == 2000000
mistral_output_cost_per_1k == 6000000

\* the values the environment configures: the defaults of config.py, or
\* DOCAI_COST_PER_PAGE, OPENAI_INPUT_COST_PER_1K, OPENAI_OUTPUT_COST_PER_1K set
CostConfigs ==
    { [docai_cost_per_page |-> docai_cost_per_page,
       openai_input_cost_per_1k |-> openai_input_cost_per_1k,
       openai_output_cost_per_1k |-> openai_output_cost_per_1k],
      [docai_cost_per_page |-> 2 * docai_cost_per_page,
       openai_input_cost_per_1k |-> 2 * openai_input_cost_per_1k,
       openai_output_cost_per_1k |-> 2 * openai_output_cost_per_1k] }

\* config.openai.model and config.mistral.model
OpenAIModel == "gpt-4o"
MistralModel == "pixtral-large-latest"

\* what one requests.get of a fetch meets: the request raises (timeout,
\* connection error), a status other than 200, a 200 whose body json() or
\* float() rejects, a 200 with the values, a 200 whose JSON lacks the keys
FetchOutcomes == {"exception", "non_200", "malformed", "ok", "ok_missing_keys"}

FetchFailures == {"exception", "non_200", "malformed"}

\* the outcomes that raise inside the try and reach `except Exception`
FetchRaisesInsideTry(outcome) == outcome \in {"exception", "malformed"}

\* the body the backend answers with on "ok"
BackendPricing ==
    [model_name |-> "backend-model", model_code |-> "backend-code",
     input_cost_per_1k |-> 250000, output_cost_per_1k |-> 1000000]

costOthers == <<total_pages, planVars, mistralVars, fnVars, eobVars, call, proc, clean>>

\* no pricing fetched yet
NoPricing ==
    [model_name |-> "none", model_code |-> "none",
     input_cost_per_1k |-> 0, output_cost_per_1k |-> 0]

NoValue == "none"

\* the amount as it is, not rounded
Round4Skipped(nano) == nano
\* round(x, 4) of a non-negative amount
Round4(nano) == ((nano + 50000) \div 100000) * 100000

\* a CostTracker call that has not started: fn is the method called, fetched
\* the fetch functions that have returned
NewCost(fn, enabled, cfg, provider, pages, input_tokens, output_tokens, model_used) ==
    [pc |-> "entry", fn |-> fn, cost_tracking_enabled |-> enabled, cfg |-> cfg,
     provider |-> provider, pages |-> pages, input_tokens |-> input_tokens,
     output_tokens |-> output_tokens, model_used |-> model_used,
     attempt |-> 0, docai_attempts |-> <<>>, pricing_attempts |-> <<>>,
     sleeps |-> <<>>, requests |-> 0,
     fetched |-> {}, cost_per_page |-> 0, model_pricing |-> NoPricing,
     returned |-> NoValue, raised |-> FALSE]

\* `for attempt in range(max_retries)` of both fetch functions
FetchLoopContinuesForever(attempt) == attempt <= max_retries
FetchLoopContinues(attempt) == attempt < max_retries

\* time.sleep(2 ** attempt) in the except branch, not after the last attempt
FetchSleep(outcome, attempt) ==
    IF FetchRaisesInsideTry(outcome) /\ attempt < max_retries - 1 THEN 2 ^ attempt ELSE 0

\* the disabled branch and the fallback of fetch_model_pricing
ConfiguredPricing(cfg) ==
    [model_name |-> OpenAIModel, model_code |-> OpenAIModel,
     input_cost_per_1k |-> cfg.openai_input_cost_per_1k,
     output_cost_per_1k |-> cfg.openai_output_cost_per_1k]

FallbackPricing(cfg) ==
    [model_name |-> "GPT-4o", model_code |-> "gpt-4o",
     input_cost_per_1k |-> cfg.openai_input_cost_per_1k,
     output_cost_per_1k |-> cfg.openai_output_cost_per_1k]

\* the dict built from a 200 answer: data.get(key, literal default)
PricingOfAnswer(outcome) ==
    IF outcome = "ok" THEN BackendPricing
    ELSE [model_name |-> "GPT-4o", model_code |-> "gpt-4o",
          input_cost_per_1k |-> openai_input_cost_per_1k,
          output_cost_per_1k |-> openai_output_cost_per_1k]

\* float(response.json().get('data', {}).get('value', '0.015'))
DocaiValueOfAnswer(outcome) ==
    IF outcome = "ok" THEN 10000000 ELSE docai_cost_per_page

\* calculate_openai_cost with the pricing handed in
CalculateOpenAICost(input_tokens, output_tokens, model_pricing) ==
    Round4(input_tokens * (model_pricing.input_cost_per_1k \div 1000)
           + output_tokens * (model_pricing.output_cost_per_1k \div 1000))

CalculateMistralCost(input_tokens, output_tokens) ==
    Round4(input_tokens * (mistral_input_cost_per_1k \div 1000)
           + output_tokens * (mistral_output_cost_per_1k \div 1000))

CalculateDocumentAICost(pages, cost_per_page) == Round4(pages * cost_per_page)

CostBreakdown(document_ai_cost, openai_cost, total_cost, pages, input_tokens, output_tokens, model_name) ==
    [type |-> "CostBreakdown",
     document_ai_cost |-> document_ai_cost, openai_cost |-> openai_cost,
     total_cost |-> total_cost, pages |-> pages, input_tokens |-> input_tokens,
     output_tokens |-> output_tokens, total_tokens |-> input_tokens + output_tokens,
     model_used |-> model_name]

\* the breakdown of the `if not self.cost_tracking_enabled` branch
DisabledBreakdownCharged(c) ==
    CostBreakdown(CalculateDocumentAICost(c.pages, c.cfg.docai_cost_per_page),
                  CalculateOpenAICost(c.input_tokens, c.output_tokens, ConfiguredPricing(c.cfg)),
                  Round4(CalculateDocumentAICost(c.pages, c.cfg.docai_cost_per_page)
                         + CalculateOpenAICost(c.input_tokens, c.output_tokens,
                                               ConfiguredPricing(c.cfg))),
                  c.pages, c.input_tokens, c.output_tokens,
                  IF c.provider = "mistral" THEN MistralModel ELSE OpenAIModel)
DisabledBreakdown(c) ==
    CostBreakdown(0, 0, 0, c.pages, c.input_tokens, c.output_tokens,
                  IF c.provider = "mistral" THEN MistralModel ELSE OpenAIModel)

\* the breakdown of the mistral branch: no OCR cost, token cost at the
\* configured Mistral prices
MistralBreakdown(c) ==
    LET llm_cost == CalculateMistralCost(c.input_tokens, c.output_tokens)
    IN  CostBreakdown(0, llm_cost, Round4(0 + llm_cost),
                      c.pages, c.input_tokens, c.output_tokens, MistralModel)

\* the breakdown of the Document AI + OpenAI branch, the two fetches done
OpenAIBreakdown(c) ==
    LET ocr_cost == CalculateDocumentAICost(c.pages, c.cost_per_page)
        llm_cost == CalculateOpenAICost(c.input_tokens, c.output_tokens, c.model_pricing)
    IN  CostBreakdown(ocr_cost, llm_cost, Round4(ocr_cost + llm_cost),
                      c.pages, c.input_tokens, c.output_tokens,
                      c.model_pricing.model_name)

\* calculate_total_cost up to its first request: the disabled branch and the
\* mistral branch return at once, the other branch enters
\* calculate_document_ai_cost -> fetch_docai_cost_config
CalculateTotalCostEntry ==
    /\ cost.pc = "entry"
    /\ cost.fn = "calculate_total_cost"
    /\ cost' = IF ~cost.cost_tracking_enabled
               THEN [cost EXCEPT !.pc = "returned", !.returned = DisabledBreakdown(cost)]
               ELSE IF cost.provider = "mistral"
               THEN [cost EXCEPT !.pc = "returned", !.returned = MistralBreakdown(cost)]
               ELSE [cost EXCEPT !.pc = "docai_loop", !.attempt = 0]
    /\ UNCHANGED costOthers

\* fetch_docai_cost_config called on its own, up to its first request
FetchDocaiEntry ==
    /\ cost.pc = "entry"
    /\ cost.fn = "fetch_docai_cost_config"
    /\ cost' = IF ~cost.cost_tracking_enabled
               THEN [cost EXCEPT !.pc = "returned", !.fetched = @ \cup {"docai"},
                                 !.cost_per_page = cost.cfg.docai_cost_per_page,
                                 !.returned = cost.cfg.docai_cost_per_page]
               ELSE [cost EXCEPT !.pc = "docai_loop", !.attempt = 0]
    /\ UNCHANGED costOthers

\* fetch_model_pricing called on its own, up to its first request
FetchPricingEntry ==
    /\ cost.pc = "entry"
    /\ cost.fn = "fetch_model_pricing"
    /\ cost' = IF ~cost.cost_tracking_enabled
               THEN [cost EXCEPT !.pc = "returned", !.fetched = @ \cup {"pricing"},
                                 !.model_pricing = ConfiguredPricing(cost.cfg),
                                 !.returned = ConfiguredPricing(cost.cfg)]
               ELSE [cost EXCEPT !.pc = "pricing_loop", !.attempt = 0]
    /\ UNCHANGED costOthers

\* where fetch_docai_cost_config returns to
AfterDocai(c, value) ==
    IF c.fn = "calculate_total_cost"
    THEN [c EXCEPT !.pc = "pricing_loop", !.attempt = 0, !.fetched = @ \cup {"docai"},
                   !.cost_per_page = value]
    ELSE [c EXCEPT !.pc = "returned", !.fetched = @ \cup {"docai"},
                   !.cost_per_page = value, !.returned = value]

\* where fetch_model_pricing returns to: calculate_total_cost goes on to
\* calculate_openai_cost and builds the CostBreakdown
AfterPricing(c, pricing) ==
    IF c.fn = "calculate_total_cost"
    THEN LET priced == [c EXCEPT !.model_pricing = pricing, !.fetched = @ \cup {"pricing"}]
         IN  [priced EXCEPT !.pc = "returned", !.returned = OpenAIBreakdown(priced)]
    ELSE [c EXCEPT !.pc = "returned", !.fetched = @ \cup {"pricing"},
                   !.model_pricing = pricing, !.returned = pricing]

\* one iteration of the loop of fetch_docai_cost_config
FetchDocaiAttempt ==
    /\ cost.pc = "docai_loop"
    /\ FetchLoopContinues(cost.attempt)
    /\ \E outcome \in FetchOutcomes :
          LET tried == [cost EXCEPT
                  !.docai_attempts = Append(@, outcome),
                  !.requests = @ + 1,
                  !.sleeps = Append(@, FetchSleep(outcome, cost.attempt)),
                  !.attempt = @ + 1]
          IN  cost' = IF outcome \in FetchFailures THEN tried
                      ELSE AfterDocai(tried, DocaiValueOfAnswer(outcome))
    /\ UNCHANGED costOthers

\* the loop of fetch_docai_cost_config is over: return self.docai_cost_per_page
FetchDocaiFallback ==
    /\ cost.pc = "docai_loop"
    /\ ~FetchLoopContinues(cost.attempt)
    /\ cost' = AfterDocai(cost, cost.cfg.docai_cost_per_page)
    /\ UNCHANGED costOthers

\* one iteration of the loop of fetch_model_pricing
FetchPricingAttempt ==
    /\ cost.pc = "pricing_loop"
    /\ FetchLoopContinues(cost.attempt)
    /\ \E outcome \in FetchOutcomes :
          LET tried == [cost EXCEPT
                  !.pricing_attempts = Append(@, outcome),
                  !.requests = @ + 1,
                  !.sleeps = Append(@, FetchSleep(outcome, cost.attempt)),
                  !.attempt = @ + 1]
          IN  cost' = IF outcome \in FetchFailures THEN tried
                      ELSE AfterPricing(tried, PricingOfAnswer(outcome))
    /\ UNCHANGED costOthers

\* the loop of fetch_model_pricing is over: the fallback dict
FetchPricingFallback ==
    /\ cost.pc = "pricing_loop"
    /\ ~FetchLoopContinues(cost.attempt)
    /\ cost' = AfterPricing(cost, FallbackPricing(cost.cfg))
    /\ UNCHANGED costOthers

CostFunctions == {"calculate_total_cost", "fetch_docai_cost_config", "fetch_model_pricing"}

CostProviders == {"openai", "mistral"}

CostPages == {0, 3}

CostTokens == {0, 1234}

InitCost ==
    /\ total_pages = 1
    /\ api_key_set = TRUE
    /\ use_batch = FALSE
    /\ mpc = "idle"
    /\ MistralStart
    /\ PlanIdle
    /\ FnIdle
    /\ EobIdle
    /\ CallIdle
    /\ ProcIdle
    /\ CleanIdle
    /\ \E fn \in CostFunctions, enabled \in BOOLEAN, cfg \in CostConfigs,
          provider \in CostProviders, pages \in CostPages,
          input_tokens, output_tokens \in CostTokens :
          cost = NewCost(fn, enabled, cfg, provider, pages, input_tokens,
                         output_tokens, "GPT-4o")

NextCost ==
    \/ CalculateTotalCostEntry
    \/ FetchDocaiEntry
    \/ FetchPricingEntry
    \/ FetchDocaiAttempt
    \/ FetchDocaiFallback
    \/ FetchPricingAttempt
    \/ FetchPricingFallback

\* a request ends (timeout = 10) and a sleep ends, so every step is taken
SpecCost ==
    InitCost /\ [][NextCost]_vars
        /\ WF_vars(CalculateTotalCostEntry) /\ WF_vars(FetchDocaiEntry)
        /\ WF_vars(FetchPricingEntry) /\ WF_vars(FetchDocaiAttempt)
        /\ WF_vars(FetchDocaiFallback) /\ WF_vars(FetchPricingAttempt)
        /\ WF_vars(FetchPricingFallback)

AllFailed(attempts) ==
    /\ Len(attempts) > 0
    /\ \A i \in 1..Len(attempts) : attempts[i] \in FetchFailures

CostReturned == cost.pc = "returned" /\ ~cost.raised

\* C28: whatever the pricing source answers (exception, non-200 status,
\* malformed body), each fetch makes at most 3 attempts; a fetch all of whose
\* attempts failed has made exactly 3 and returns the configured defaults;
\* nothing is raised and calculate_total_cost returns a CostBreakdown.
C28_PricingSourceNeverRaises ==
    /\ [](/\ ~cost.raised
          /\ Len(cost.docai_attempts) <= 3
          /\ Len(cost.pricing_attempts) <= 3
          /\ ("docai" \in cost.fetched /\ AllFailed(cost.docai_attempts))
                => /\ Len(cost.docai_attempts) = 3
                   /\ cost.cost_per_page = cost.cfg.docai_cost_per_page
          /\ ("pricing" \in cost.fetched /\ AllFailed(cost.pricing_attempts))
                => /\ Len(cost.pricing_attempts) = 3
                   /\ cost.model_pricing.input_cost_per_1k = cost.cfg.openai_input_cost_per_1k
                   /\ cost.model_pricing.output_cost_per_1k = cost.cfg.openai_output_cost_per_1k
          /\ (cost.pc = "returned" /\ cost.fn = "calculate_total_cost")
                => cost.returned.type = "CostBreakdown")
    /\ <>CostReturned

\* calculate_total_cost has returned after both fetches failed three times
C28_Witness ==
    /\ cost.pc = "returned"
    /\ cost.fn = "calculate_total_cost"
    /\ cost.docai_attempts = <<"exception", "non_200", "malformed">>
    /\ cost.pricing_attempts = <<"malformed", "exception", "non_200">>
    /\ cost.returned.type = "CostBreakdown"
    /\ cost.returned.document_ai_cost = Round4(cost.pages * cost.cfg.docai_cost_per_page)
    /\ cost.returned.total_cost > 0

\* C29: with cost tracking disabled calculate_total_cost returns a breakdown
\* whose OCR cost, extraction cost and total cost are 0, whose pages and token
\* counts are the arguments, and no request goes to the pricing source.
C29_DisabledTrackingCostsNothing ==
    (cost.pc = "returned" /\ ~cost.cost_tracking_enabled)
        => /\ cost.requests = 0
           /\ cost.fn = "calculate_total_cost"
                => /\ cost.returned.document_ai_cost = 0
                   /\ cost.returned.openai_cost = 0
                   /\ cost.returned.total_cost = 0
                   /\ cost.returned.pages = cost.pages
                   /\ cost.returned.input_tokens = cost.input_tokens
                   /\ cost.returned.output_tokens = cost.output_tokens

\* a disabled tracker has returned a breakdown for a document with pages and
\* tokens, which an enabled tracker would have charged for
C29_Witness ==
    /\ cost.pc = "returned"
    /\ ~cost.cost_tracking_enabled
    /\ cost.fn = "calculate_total_cost"
    /\ cost.pages > 0
    /\ cost.input_tokens > 0
    /\ cost.output_tokens > 0
    /\ cost.returned.total_cost = 0
    /\ cost.returned.total_tokens = cost.input_tokens + cost.output_tokens

(***************************************************************************)
(* DocumentOrchestrator.process_document: the workflow of one document.    *)
(* Each step of the try block is one action; what the step calls           *)
(* (Document AI, the extractor, the file system, the backend) answers      *)
(* nondeterministically, an exception of any step included.                *)
(***************************************************************************)
procOthers == <<total_pages, planVars, mistralVars, fnVars, eobVars, call, cost, clean>>

\* max_retries of _send_results_to_backend
send_max_retries == 10

\* the requests studied: from_dict gives strings for processId and filename,
\* an integer for docCategory, a string or None for the two locations
ProcessIds == {"", "p1"}
Filenames == {"", "a.pdf", "PMG_a.pdf"}
DriveFileIds == {None, "d1"}
LocalFilePaths == {None, "/uploads/a.pdf"}
DocCategoryIds == {1, 2, 4}

ProcessRequests ==
    [process_id : ProcessIds, filename : Filenames, drive_file_id : DriveFileIds,
     local_file_path : LocalFilePaths, doc_category : DocCategoryIds]

\* `not x` of the source for a string or None
Falsy(x) == x = "" \/ x = None

\* _validate_input: the list of errors, in the order the tests are made
ValidateInput(request) ==
    (IF Falsy(request.process_id) THEN <<"Missing processId">> ELSE <<>>)
    \o (IF Falsy(request.filename) THEN <<"Missing filename">> ELSE <<>>)
    \o (IF Falsy(request.drive_file_id) /\ Falsy(request.local_file_path)
        THEN <<"Missing driveFileId or localFilePath">> ELSE <<>>)
    \o (IF request.doc_category \notin {1, 2, 3} THEN <<"Invalid docCategory">> ELSE <<>>)

\* `if validation_errors:` of process_document
ValidationIgnored(validation_errors) == FALSE
ValidationStops(validation_errors) == validation_errors # <<>>

\* _extract_data: PMG and DN facesheets are extracted without the LLM
UsesDirectExtraction(request) ==
    request.doc_category = 2 /\ request.filename \in {"PMG_a.pdf"}

\* error_message = None, the default of ProcessResult
NoMessage == <<>>

\* ProcessResult(status='Error', error_message=...); the message is kept as
\* its parts: what it starts with and what follows
ErrorResult(request, error_message) ==
    [process_id |-> request.process_id, status |-> "Error",
     error_message |-> error_message, total_records |-> 0]

\* ProcessResult(status='Processed', ...): error_message keeps its default
ProcessedResult(request, total_records) ==
    [process_id |-> request.process_id, status |-> "Processed",
     error_message |-> NoMessage, total_records |-> total_records]

\* the except branch of process_document: error_message = str(e)
ExceptionResult(request, step) == ErrorResult(request, <<"exception in", step>>)

NoProcessResult ==
    [process_id |-> None, status |-> None, error_message |-> NoMessage, total_records |-> 0]

\* a call of process_document that has not started.  steps: the steps begun,
\* in order; the counters and files are the effects outside the call
NewProc(request) ==
    [pc |-> "start", request |-> request, steps |-> <<>>, validations |-> 0,
     config_requests |-> 0, provider_calls |-> 0, files |-> {}, send_attempts |-> 0,
     notified |-> FALSE, records |-> 0, result |-> NoProcessResult, raised |-> FALSE]

\* the step is left by an exception, which the except branch turns into a result
Caught(p, step) ==
    [p EXCEPT !.pc = "returned", !.result = ExceptionResult(p.request, step)]

\* before the try: get_dynamic_config and the log line that reads the two
\* providers (fetch_api_config asks the backend once and swallows every
\* failure), then cost_tracker.start_tracking()
ProcLoadConfig ==
    /\ proc.pc = "start"
    /\ proc' = [proc EXCEPT !.pc = "validate", !.config_requests = @ + 1]
    /\ UNCHANGED procOthers

\* Step 1: validation_errors = self._validate_input(request)
ProcValidate ==
    /\ proc.pc = "validate"
    /\ LET validation_errors == ValidateInput(proc.request)
           begun == [proc EXCEPT !.steps = Append(@, "validate"), !.validations = @ + 1]
       IN  proc' = IF ValidationStops(validation_errors)
                   THEN [begun EXCEPT
                           !.pc = "returned",
                           !.result = ErrorResult(proc.request,
                                          <<"Validation failed">> \o validation_errors)]
                   ELSE [begun EXCEPT !.pc = "download"]
    /\ UNCHANGED procOthers

\* Step 2: local_pdf_path = self._download_pdf(request): a path, None, or an
\* exception of the Drive service
ProcDownload ==
    /\ proc.pc = "download"
    /\ \E outcome \in {"path", "none", "raises"} :
          LET begun == [proc EXCEPT !.steps = Append(@, "obtain")]
          IN  proc' = CASE outcome = "path" -> [begun EXCEPT !.pc = "docai"]
                        [] outcome = "none" ->
                             [begun EXCEPT
                                !.pc = "returned",
                                !.result = ErrorResult(proc.request,
                                    <<"Failed to download PDF from Google Drive">>)]
                        [] OTHER -> Caught(begun, "obtain")
    /\ UNCHANGED procOthers

\* Step 3: docai_result = self.eob_processor.process_file(local_pdf_path):
\* a success dict, an error dict, None (docai_result.get then raises
\* AttributeError inside the try), or an exception
ProcDocumentAI ==
    /\ proc.pc = "docai"
    /\ \E outcome \in {"success", "error", "none", "raises"} :
          LET begun == [proc EXCEPT !.steps = Append(@, "ocr"),
                                    !.provider_calls = @ + 1]
          IN  proc' = CASE outcome = "success" -> [begun EXCEPT !.pc = "extract"]
                        [] outcome = "error" ->
                             [begun EXCEPT
                                !.pc = "returned",
                                !.result = ErrorResult(proc.request,
                                    <<"Document AI processing failed">>)]
                        [] OTHER -> Caught(begun, "ocr")
    /\ UNCHANGED procOthers

\* Step 4: extraction_result = self._extract_data(...)
ProcExtract ==
    /\ proc.pc = "extract"
    /\ \E outcome \in {"result", "raises"}, total_records \in {0, 2} :
          LET begun == [proc EXCEPT
                  !.steps = Append(@, "extract"),
                  !.provider_calls = IF UsesDirectExtraction(proc.request) THEN @ ELSE @ + 1]
          IN  proc' = IF outcome = "result"
                      THEN [begun EXCEPT !.pc = "cost", !.records = total_records]
                      ELSE Caught(begun, "extract")
    /\ UNCHANGED procOthers

\* Step 5: cost_breakdown = self.cost_tracker.calculate_total_cost(...)
ProcCost ==
    /\ proc.pc = "cost"
    /\ \E outcome \in {"breakdown", "raises"} :
          LET begun == [proc EXCEPT !.steps = Append(@, "cost")]
          IN  proc' = IF outcome = "breakdown" THEN [begun EXCEPT !.pc = "output"]
                      ELSE Caught(begun, "cost")
    /\ UNCHANGED procOthers

\* Steps 6 to 9: the JSON and CSV output are prepared, the files written in
\* the order JSON, CSV, XLSX (a failure of the XLSX export is only logged),
\* the ProcessResult built
ProcOutput ==
    /\ proc.pc = "output"
    /\ \E outcome \in {"written", "written_without_xlsx", "raises_in_prepare",
                       "raises_in_json", "raises_in_csv"} :
          LET begun == [proc EXCEPT !.steps = Append(@, "output")]
          IN  proc' = CASE outcome = "written" ->
                             [begun EXCEPT !.pc = "send", !.files = {"json", "csv", "xlsx"},
                                           !.result = ProcessedResult(proc.request, proc.records)]
                        [] outcome = "written_without_xlsx" ->
                             [begun EXCEPT !.pc = "send", !.files = {"json", "csv"},
                                           !.result = ProcessedResult(proc.request, proc.records)]
                        [] outcome = "raises_in_prepare" -> Caught(begun, "output")
                        [] outcome = "raises_in_json" -> Caught(begun, "output")
                        [] OTHER -> Caught([begun EXCEPT !.files = {"json"}], "output")
    /\ UNCHANGED procOthers

\* Step 10: one iteration of the loop of _send_results_to_backend; it returns
\* True on a 200 and False after the last attempt, and raises nothing;
\* process_document then returns the result
ProcSendAttempt ==
    /\ proc.pc = "send"
    /\ proc.send_attempts < send_max_retries
    /\ \E outcome \in {"ok", "status", "exception"} :
          LET begun == [proc EXCEPT
                  !.steps = IF proc.send_attempts = 0 THEN Append(@, "notify") ELSE @,
                  !.send_attempts = @ + 1]
          IN  proc' = IF outcome = "ok"
                      THEN [begun EXCEPT !.pc = "returned", !.notified = TRUE]
                      ELSE IF begun.send_attempts = send_max_retries
                      THEN [begun EXCEPT !.pc = "returned"]
                      ELSE begun
    /\ UNCHANGED procOthers

InitProc ==
    /\ total_pages = 1
    /\ api_key_set = TRUE
    /\ use_batch = FALSE
    /\ mpc = "idle"
    /\ MistralStart
    /\ PlanIdle
    /\ FnIdle
    /\ EobIdle
    /\ CallIdle
    /\ CostIdle
    /\ CleanIdle
    /\ \E request \in ProcessRequests : proc = NewProc(request)

NextProc ==
    \/ ProcLoadConfig
    \/ ProcValidate
    \/ ProcDownload
    \/ ProcDocumentAI
    \/ ProcExtract
    \/ ProcCost
    \/ ProcOutput
    \/ ProcSendAttempt

\* every call made by a step ends (the requests have timeouts, the sleeps end)
SpecProc ==
    InitProc /\ [][NextProc]_vars
        /\ WF_vars(ProcLoadConfig) /\ WF_vars(ProcValidate) /\ WF_vars(ProcDownload)
        /\ WF_vars(ProcDocumentAI) /\ WF_vars(ProcExtract) /\ WF_vars(ProcCost)
        /\ WF_vars(ProcOutput) /\ WF_vars(ProcSendAttempt)

StepOrder == <<"validate", "obtain", "ocr", "extract", "cost", "output", "notify">>

IsPrefixOf(s, t) == Len(s) <= Len(t) /\ \A i \in 1..Len(s) : s[i] = t[i]

ProcReturned == proc.pc = "returned"

\* C30: every call of process_document ends with one result, 'Processed' or
\* 'Error' with a cause, and raises nothing; the steps begun are a prefix of
\* validate, obtain, (OCR,) extract, cost, output, (notify); a request that
\* fails validation ends as 'Error' carrying exactly the validation errors,
\* after one validation, with no provider call, no file and no notification.
C30_OneOutcomeStepsInOrder ==
    /\ [](/\ ~proc.raised
          /\ IsPrefixOf(proc.steps, StepOrder)
          /\ ProcReturned =>
                /\ proc.result.status \in {"Processed", "Error"}
                /\ proc.result.status = "Error" <=> proc.result.error_message # NoMessage
                /\ proc.result.status = "Processed" => proc.steps = StepOrder
          /\ (~ProcReturned /\ proc.pc # "send") => proc.result = NoProcessResult
          /\ (ProcReturned /\ ValidateInput(proc.request) # <<>>) =>
                /\ proc.result.status = "Error"
                /\ proc.result.error_message
                      = <<"Validation failed">> \o ValidateInput(proc.request)
                /\ proc.steps = <<"validate">>
                /\ proc.validations = 1
                /\ proc.provider_calls = 0
                /\ proc.files = {}
                /\ proc.send_attempts = 0)
    /\ <>ProcReturned
    /\ [][proc.pc = "returned" => proc' = proc]_vars

\* a request without process id and with an invalid category has ended
C30_Witness ==
    /\ ProcReturned
    /\ proc.request.process_id = ""
    /\ proc.request.doc_category = 4
    /\ proc.request.filename = "a.pdf"
    /\ proc.result.status = "Error"
    /\ proc.result.error_message
          = <<"Validation failed", "Missing processId", "Invalid docCategory">>

(***************************************************************************)
(* The two entry points of MistralProcessor that test the API key:         *)
(* process_pdf and get_raw_text.                                           *)
(***************************************************************************)

\* get_raw_text without the test of the key: the PDF is encoded and sent
GetRawTextUnchecked ==
    /\ mpc = "get_raw_text"
    /\ ~api_key_set
    /\ sync_log' = Append(sync_log, [chunk_idx |-> 0, out |-> [ok |-> FALSE, body |-> NoChoicesBody]])
    /\ mpc' = "failed"
    /\ error' = "SyncError"
    /\ UNCHANGED <<compVars, fnVars, cfgVars, planVars, batchVars, chunk_idx, batch_error,
                   all_records, total_input_tokens, total_output_tokens, result>>
\* get_raw_text: raise ValueError("Mistral API key not configured")
GetRawTextNoKey ==
    /\ mpc = "get_raw_text"
    /\ ~api_key_set
    /\ mpc' = "failed"
    /\ error' = "ValueError"
    /\ UNCHANGED <<compVars, fnVars, cfgVars, planVars, batchVars, accVars, chunk_idx, batch_error, result>>

\* get_raw_text with a key: the PDF is encoded (the file may be unreadable),
\* one _call_mistral_api, the content of the first choice is returned
GetRawText ==
    /\ mpc = "get_raw_text"
    /\ api_key_set
    /\ \/ /\ mpc' = "failed"
          /\ error' = "FileError"
          /\ UNCHANGED <<sync_log, result>>
       \/ \E out \in SyncOutcomes :
             /\ sync_log' = Append(sync_log, [chunk_idx |-> 0, out |-> out])
             /\ IF out.ok
                THEN /\ result' = [mode |-> "raw_text", records |-> <<>>,
                                   input_tokens |-> 0, output_tokens |-> 0]
                     /\ mpc' = "done"
                     /\ error' = error
                ELSE /\ mpc' = "failed"
                     /\ error' = "SyncError"
                     /\ result' = result
    /\ UNCHANGED <<compVars, fnVars, cfgVars, planVars, batchVars, chunk_idx, batch_error,
                   all_records, total_input_tokens, total_output_tokens>>

InitKey ==
    /\ total_pages \in DocumentSizes
    /\ api_key_set \in BOOLEAN
    /\ use_batch \in BOOLEAN
    /\ mpc \in {"process_pdf", "get_raw_text"}
    /\ MistralStart
    /\ PlanIdle
    /\ FnIdle
    /\ CompIdle

NextKey ==
    \/ GetRawTextNoKey
    \/ GetRawText
    \/ ProcessPdfNoKey
    \/ ProcessPdfUnreadable
    \/ ProcessPdfRoute
    \/ ProcessSingle
    \/ ProcessWithChunking
    \/ BatchPrepareChunk
    \/ BatchPrepareError
    \/ BatchSubmit
    \/ BatchPoll
    \/ BatchWaitTimeout
    \/ BatchGetResults
    \/ BatchProcessResults
    \/ BatchProcessRaises
    \/ BatchFallback
    \/ SeqChunk
    \/ SeqFinish

SpecKey == InitKey /\ [][NextKey]_vars

\* nothing has been sent to the provider and no chunk has been built
NothingAttempted ==
    /\ sync_log = <<>>
    /\ submitted = <<>>
    /\ job_id = NoJob
    /\ last_status = "none"
    /\ batch_requests = <<>>
    /\ chunk_info = <<>>
    /\ batch_results = <<>>

\* C31: without a usable Mistral API key, process_pdf and get_raw_text fail
\* with the configuration error before any network call and before any chunk
\* is built, and the failed call goes no further (nothing is tried again).
C31_NoKeyFailsBeforeAnyCall ==
    ~api_key_set =>
        /\ NothingAttempted
        /\ result = NoResult
        /\ \/ mpc \in {"process_pdf", "get_raw_text"} /\ error = NoError
           \/ mpc = "failed" /\ error = "ValueError"
        /\ mpc = "failed" => ~ENABLED NextKey

\* a call without key has failed for a document that would have been chunked
C31_Witness ==
    /\ ~api_key_set
    /\ mpc = "failed"
    /\ error = "ValueError"
    /\ NeedsChunking(total_pages, MAX_PAGES_PER_CHUNK)

\* the token cost before round(total_cost, 4) of calculate_openai_cost
UnroundedTokenCost(input_tokens, output_tokens, input_cost_per_1k, output_cost_per_1k) ==
    input_tokens * (input_cost_per_1k \div 1000) + output_tokens * (output_cost_per_1k \div 1000)

\* a multiple of 1e-4 dollars
HasFourDecimals(nano) == nano % 100000 = 0

BreakdownReturned ==
    /\ cost.pc = "returned"
    /\ cost.fn = "calculate_total_cost"

\* C32: for non-negative pages, token counts and rates every monetary value of
\* the CostBreakdown is non-negative and has 4 decimal places, and total_cost
\* is the 4-decimal rounding of OCR cost plus extraction cost.
C32_CostsRoundedNonNegative ==
    BreakdownReturned =>
        /\ cost.returned.document_ai_cost >= 0
        /\ cost.returned.openai_cost >= 0
        /\ cost.returned.total_cost >= 0
        /\ HasFourDecimals(cost.returned.document_ai_cost)
        /\ HasFourDecimals(cost.returned.openai_cost)
        /\ HasFourDecimals(cost.returned.total_cost)
        /\ cost.returned.total_cost
              = Round4(cost.returned.document_ai_cost + cost.returned.openai_cost)

\* an enabled tracker has priced a document whose token cost had more than
\* four decimals before it was rounded
C32_Witness ==
    /\ BreakdownReturned
    /\ cost.cost_tracking_enabled
    /\ cost.provider = "openai"
    /\ cost.pages > 0
    /\ ~HasFourDecimals(UnroundedTokenCost(cost.input_tokens, cost.output_tokens,
                                           cost.model_pricing.input_cost_per_1k,
                                           cost.model_pricing.output_cost_per_1k))
    /\ cost.returned.openai_cost > 0
    /\ cost.returned.total_cost > cost.returned.openai_cost

(***************************************************************************)
(* The deletion of temporary chunk files:                                  *)
(*   EOBProcessor._cleanup_temp_files, called at the end of the success    *)
(*     path of process_file;                                               *)
(*   the finally clause of the chunk loop of                               *)
(*     MistralProcessor._process_chunks_sequential and of                  *)
(*     MistralProcessor._process_chunks_batch (os.unlink(tmp_path)).       *)
(***************************************************************************)
cleanOthers == <<total_pages, planVars, mistralVars, fnVars, eobVars, call, cost, proc>>

CleanupSites == {"eob", "mistral_sequential", "mistral_batch"}

\* what a deletion call meets
DeletionFailures == {"PermissionError", "OSError"}

\* a run that has reached its first cleanup.  work: what the guarded code
\* made of the document so far; deletions: the deletion calls made on the
\* current temporary storage; left: what leaves the function
NewClean(site, num) ==
    [pc |-> "cleanup", site |-> site, num_chunks |-> num, chunk |-> 1,
     work |-> "ok", attempt |-> 0, deletions |-> <<>>, history |-> <<>>,
     left |-> "nothing"]

\* the temp_splits directory does not exist: nothing is deleted
EobNothingToClean ==
    /\ clean.pc = "cleanup"
    /\ clean.site = "eob"
    /\ clean.attempt = 0
    /\ clean.deletions = <<>>
    /\ clean' = [clean EXCEPT !.pc = "returned", !.left = "success"]
    /\ UNCHANGED cleanOthers

\* one iteration of `for attempt in range(3)` of _cleanup_temp_files: rmtree,
\* whose PermissionError or OSError is caught; a failure of the first two
\* attempts sleeps 0.5 s, a failure of the third calls
\* shutil.rmtree(temp_dir, ignore_errors=True)
EobRmtreeAttempt ==
    /\ clean.pc = "cleanup"
    /\ clean.site = "eob"
    /\ clean.attempt < 3
    /\ \E outcome \in {"removed"} \cup DeletionFailures,
          last \in {"removed", "error_ignored"} :
          LET tried == [clean EXCEPT !.deletions = Append(@, outcome),
                                     !.attempt = @ + 1]
          IN  clean' =
                IF outcome = "removed"
                THEN [tried EXCEPT !.pc = "returned", !.left = "success"]
                ELSE IF clean.attempt < 2
                THEN tried
                ELSE [tried EXCEPT !.deletions = Append(@, last),
                                   !.pc = "returned", !.left = "success"]
    /\ UNCHANGED cleanOthers

\* one iteration of a Mistral chunk loop: the guarded code (the chunk's
\* extraction, or its encoding in batch mode) ends or raises, then
\* `finally: os.unlink(tmp_path)` runs once with no handler around it: an
\* exception of unlink leaves the function in place of whatever was raised
MistralChunkFinally ==
    /\ clean.pc = "cleanup"
    /\ clean.site \in {"mistral_sequential", "mistral_batch"}
    /\ \E body \in {"ok", "extraction_error"},
          outcome \in {"removed"} \cup DeletionFailures :
          LET tried == [clean EXCEPT
                  !.work = body,
                  !.deletions = <<outcome>>,
                  !.history = Append(@, <<body, outcome>>)]
          IN  clean' =
                IF outcome \in DeletionFailures
                THEN [tried EXCEPT !.pc = "returned", !.left = outcome]
                ELSE IF body = "extraction_error"
                THEN [tried EXCEPT !.pc = "returned", !.left = "extraction_error"]
                ELSE IF clean.chunk = clean.num_chunks
                THEN [tried EXCEPT !.pc = "returned", !.left = "success"]
                ELSE [tried EXCEPT !.chunk = @ + 1]
    /\ UNCHANGED cleanOthers

InitClean ==
    /\ total_pages = 1
    /\ api_key_set = TRUE
    /\ use_batch = FALSE
    /\ mpc = "idle"
    /\ MistralStart
    /\ PlanIdle
    /\ FnIdle
    /\ EobIdle
    /\ CallIdle
    /\ CostIdle
    /\ ProcIdle
    /\ \E site \in CleanupSites, num \in 2..(MaxChunks + 1) : clean = NewClean(site, num)

NextClean ==
    \/ EobNothingToClean
    \/ EobRmtreeAttempt
    \/ MistralChunkFinally

SpecClean == InitClean /\ [][NextClean]_vars

\* C33: the deletion of a temporary storage is attempted at most 3 times, and
\* failing deletions leave the outcome of the document as the work made it:
\* success stays success, an extraction error stays that extraction error.
C33_CleanupNeverFailsDocument ==
    /\ Len(clean.deletions) <= 3
    /\ clean.pc = "returned" =>
          clean.left = IF clean.work = "ok" THEN "success" ELSE "extraction_error"

(***************************************************************************)
(* OpenAIExtractor._split_into_chunks(text, total_pages).  A text is kept  *)
(* as its length and the positions where a paragraph break (two newlines)  *)
(* and a sentence end (a full stop and a space) begin; a chunk text        *)
(* text[from:to] is kept as the pair of its bounds.                        *)
(***************************************************************************)
MAX_PAGES_FOR_SINGLE_CALL == 30

TextLengths == {0, 3, 31, 40, 61, 93, 124}

\* where a break may begin in the texts studied
BreakPositions == {14, 20, 29, 44, 70}

SplitPageCounts == {1, 30, 31, 41}

SplitTexts ==
    { t \in [len : TextLengths, para : SUBSET BreakPositions, sent : SUBSET BreakPositions] :
        /\ Cardinality(t.para) <= 1
        /\ Cardinality(t.sent) <= 1
        /\ t.para \cap t.sent = {}
        /\ \A i \in t.para \cup t.sent : i + 2 <= t.len }

\* max(a, b) of the source
Max(a, b) == IF a >= b THEN a ELSE b

\* text.rfind(sub, from, to) for a two-character sub that begins at the
\* positions found: the highest such position with the whole of sub inside
\* text[from:to], -1 if there is none
RFind(found, len, from, to) ==
    LET inside == { i \in found : from <= i /\ i + 2 <= Min(to, len) }
    IN  IF inside = {} THEN -1 ELSE CHOOSE i \in inside : \A j \in inside : j <= i

\* chars_per_page = len(text) // max(total_pages, 1)
CharsPerPage(text, pages) == text.len \div Max(pages, 1)

\* end_pos of one loop pass: the paragraph break, else the sentence end, looked
\* for from the middle of the chunk to 1000 (500) characters past its end
EndPos(text, current_pos, chunk_size) ==
    LET first_end == Min(current_pos + chunk_size, text.len)
        para_pos == RFind(text.para, text.len, current_pos + chunk_size \div 2, first_end + 1000)
        break_pos == IF para_pos = -1
                     THEN RFind(text.sent, text.len, current_pos + chunk_size \div 2, first_end + 500)
                     ELSE para_pos
    IN  IF first_end < text.len /\ break_pos # -1 THEN break_pos + 1 ELSE first_end

\* total_pages <= pages_per_chunk: the whole text as one chunk; else the loop
SplitEntry ==
    /\ fn_pc = "split_entry"
    /\ IF fn_in.total_pages <= MAX_PAGES_FOR_SINGLE_CALL
       THEN /\ fn_pc' = "split_returned"
            /\ fn_out' = [fn_out EXCEPT
                   !.chunks = << [from |-> 0, to |-> fn_in.text.len,
                                  pages |-> fn_in.total_pages, start_page |-> 1,
                                  end_page |-> fn_in.total_pages] >>]
       ELSE /\ fn_pc' = "split_loop"
            /\ fn_out' = fn_out
    /\ UNCHANGED <<compVars, total_pages, planVars, mistralVars, fn_in>>

\* one pass of `while current_pos < len(text)`; len(chunk_text) / chars_per_page
\* raises ZeroDivisionError when chars_per_page is 0
SplitLoop ==
    /\ fn_pc = "split_loop"
    /\ fn_out.current_pos < fn_in.text.len
    /\ LET chars_per_page == CharsPerPage(fn_in.text, fn_in.total_pages)
           chunk_size == MAX_PAGES_FOR_SINGLE_CALL * chars_per_page
           end_pos == EndPos(fn_in.text, fn_out.current_pos, chunk_size)
           chunk_len == end_pos - fn_out.current_pos
       IN  IF chars_per_page = 0
           THEN /\ fn_pc' = "split_raised"
                /\ fn_out' = [fn_out EXCEPT !.raised = "ZeroDivisionError",
                                            !.passes = Append(@, chunk_len)]
           ELSE LET chunk_pages == Max(1, chunk_len \div chars_per_page)
                IN  /\ fn_pc' = "split_loop"
                    /\ fn_out' = [fn_out EXCEPT
                           !.chunks = Append(@, [from |-> fn_out.current_pos, to |-> end_pos,
                                                 pages |-> chunk_pages,
                                                 start_page |-> fn_out.current_page,
                                                 end_page |-> fn_out.current_page + chunk_pages - 1]),
                           !.passes = Append(@, chunk_len),
                           !.current_pos = end_pos,
                           !.current_page = @ + chunk_pages]
    /\ UNCHANGED <<compVars, total_pages, planVars, mistralVars, fn_in>>

\* the loop is over: return chunks
SplitReturn ==
    /\ fn_pc = "split_loop"
    /\ ~(fn_out.current_pos < fn_in.text.len)
    /\ fn_pc' = "split_returned"
    /\ fn_out' = fn_out
    /\ UNCHANGED <<compVars, total_pages, planVars, mistralVars, fn_in>>

InitSplit ==
    /\ api_key_set = TRUE
    /\ use_batch = FALSE
    /\ mpc = "idle"
    /\ MistralStart
    /\ PlanIdle
    /\ CompIdle
    /\ fn_pc = "split_entry"
    /\ fn_in \in [text : SplitTexts, total_pages : SplitPageCounts]
    /\ total_pages = fn_in.total_pages
    /\ fn_out = [chunks |-> <<>>, passes |-> <<>>, current_pos |-> 0, current_page |-> 1,
                 raised |-> NoError]

NextSplit ==
    \/ SplitEntry
    \/ SplitLoop
    \/ SplitReturn

\* the loop is not held up: every pass is pure computation
SpecSplit ==
    InitSplit /\ [][NextSplit]_vars
        /\ WF_vars(SplitEntry) /\ WF_vars(SplitLoop) /\ WF_vars(SplitReturn)

SplitReturned == fn_pc = "split_returned"

\* C34: the chunks returned for a document of total_pages pages have page
\* ranges that start at 1, follow one another without gap or overlap, and end
\* at total_pages.
C34_ChunkPagesCoverDocument ==
    SplitReturned =>
        LET chunks == fn_out.chunks
        IN  /\ chunks # <<>>
            /\ chunks[1].start_page = 1
            /\ \A i \in 1..(Len(chunks) - 1) :
                  chunks[i + 1].start_page = chunks[i].end_page + 1
            /\ \A i \in 1..Len(chunks) : chunks[i].start_page <= chunks[i].end_page
            /\ chunks[Len(chunks)].end_page = fn_in.total_pages

\* C38: for every text and every total_pages >= 1 the function ends and
\* raises nothing, every loop pass consumes at least one character, and the
\* chunk texts in order are the text: the first begins at 0, each begins where
\* the one before ends, the last ends at len(text).
C38_SplitTerminatesKeepsText ==
    /\ [](/\ fn_pc # "split_raised"
          /\ \A i \in 1..Len(fn_out.passes) : fn_out.passes[i] >= 1
          /\ SplitReturned =>
                LET chunks == fn_out.chunks
                IN  /\ \A i \in 1..(Len(chunks) - 1) : chunks[i + 1].from = chunks[i].to
                    /\ (chunks = <<>>) => fn_in.text.len = 0
                    /\ chunks # <<>> => /\ chunks[1].from = 0
                                        /\ chunks[Len(chunks)].to = fn_in.text.len)
    /\ <>(fn_pc \in {"split_returned", "split_raised"})

\* the attempts of the call were used up by transient failures
RetriesExhausted ==
    /\ call.pc = "raised"
    /\ Len(call.attempts) = max_retries
    /\ \A i \in 1..Len(call.attempts) :
          call.attempts[i] \in {"timeout", "connection_error", "rate_limit"}

\* C35: when a provider call fails after its retries are exhausted, the error
\* that reaches the caller carries the cause of the last failed attempt,
\* whether timeouts, connection errors or rate-limit answers used them up.
C35_ExhaustedCallCarriesLastCause ==
    RetriesExhausted => call.raised = call.attempts[Len(call.attempts)]

\* run d was dispatched in parallel and some worker failed, others did not
SomeWorkerFailed(d) ==
    /\ Len(runs[d].split_files) > 1
    /\ Len(runs[d].all_raw_data) >= 1
    /\ Len(runs[d].all_raw_data) < Len(runs[d].split_files)

\* C36: in parallel dispatch, when some chunk worker fails while others
\* succeed, every page entry of the consolidated raw data carries the page
\* number it has in the original document, and the consolidated page count is
\* the document's total page count given in the processing result.
C36_FailedWorkerKeepsPageNumbers ==
    \A d \in RunIds :
        (runs[d].pc = "returned" /\ runs[d].status = "success" /\ SomeWorkerFailed(d)) =>
            /\ \A k \in 1..Len(runs[d].consolidated.page_details) :
                  runs[d].consolidated.page_details[k].page_number
                      = runs[d].consolidated.page_details[k].doc_page
            /\ runs[d].consolidated.pages = runs[d].total_pages

(***************************************************************************)
(* MistralProcessor._deduplicate_records on its own: the function is       *)
(* applied to every short list of records whose identity fields Claim_ID,  *)
(* patient_acct and paid_amount are empty or filled in.                    *)
(***************************************************************************)

\* a record with three of the identity fields and the page it was read from
DedupRecord(claim_id, acct, paid, page) ==
    [MistralRecord(acct, "", page) EXCEPT !.Claim_ID = claim_id, !.paid_amount = paid]

DedupRecords ==
    {DedupRecord(c, a, p, page) : c \in {"", "X", "Y"}, a \in {"", "X"},
                                  p \in {"", "X"}, page \in 1..2}

\* unique_records = self._deduplicate_records(all_records)
MistralDeduplicate ==
    /\ fn_pc = "dedup_entry"
    /\ fn_out' = DeduplicateRecords(fn_in)
    /\ fn_pc' = "deduplicated"
    /\ UNCHANGED <<compVars, total_pages, planVars, mistralVars, fn_in>>

InitDedup ==
    /\ total_pages = MaxRecords * MAX_PAGES_PER_CHUNK
    /\ api_key_set = TRUE
    /\ use_batch = FALSE
    /\ mpc = "idle"
    /\ MistralStart
    /\ PlanIdle
    /\ fn_pc = "dedup_entry"
    /\ fn_in \in UNION {[1..n -> DedupRecords] : n \in 0..MaxRecords}
    /\ fn_out = <<>>
    /\ CompIdle

NextDedup == MistralDeduplicate

SpecDedup == InitDedup /\ [][NextDedup]_vars

Deduplicated == fn_pc = "deduplicated"

\* the values of the five identity fields of a record, field by field
IdentityFields(record) ==
    <<record.Claim_ID, record.patient_acct, record.Patient_Name,
      record.service_date, record.paid_amount>>

\* C37: two records are duplicates only if they agree in every identity
\* field: a record that differs from every record before it in at least one
\* identity field (which fields are empty included) is in the output.
C37_DifferentIdentityBothKept ==
    Deduplicated =>
        \A i \in 1..Len(fn_in) :
            (\A j \in 1..(i - 1) : IdentityFields(fn_in[j]) # IdentityFields(fn_in[i]))
                => \E k \in 1..Len(fn_out) : fn_out[k] = fn_in[i]

\* the records of a list at the positions of a set, in the order of the list
Pick(records, positions) ==
    SelectSeq([i \in 1..Len(records) |-> i], LAMBDA i : i \in positions)

\* C39: the output is a subsequence of the input: its records are input
\* records, unchanged and in input order, and a record with a non-empty key
\* is the first input record with that key.
C39_OutputIsSubsequenceFirstKept ==
    Deduplicated =>
        \E positions \in SUBSET (1..Len(fn_in)) :
            LET at == Pick(fn_in, positions) IN
            /\ Len(at) = Len(fn_out)
            /\ \A k \in 1..Len(at) :
                  /\ fn_out[k] = fn_in[at[k]]
                  /\ DedupKey(fn_out[k]) # <<>> =>
                        \A j \in 1..(at[k] - 1) : DedupKey(fn_in[j]) # DedupKey(fn_out[k])

\* a later record with the key of an earlier one was dropped, and two records
\* are left whose order can be compared with the input
C39_Witness ==
    /\ Deduplicated
    /\ Len(fn_out) >= 2
    /\ \E i, j \in 1..Len(fn_in) :
          /\ i < j
          /\ DedupKey(fn_in[i]) # <<>>
          /\ DedupKey(fn_in[i]) = DedupKey(fn_in[j])
          /\ fn_in[i] # fn_in[j]

====
